---- MODULE Spec2Model ----
(***************************************************************************)
(* Uthernet II (W5100) emulation core of bobbin: src/src/periph/uthernet2.c *)
(*                                                                         *)
(* The card is modelled as the state of the two module-scope objects `u2`  *)
(* and `virtual_tcp`, plus the set of host descriptors the card has open.  *)
(* Every C function is an operator over a "world" record                   *)
(*     w = [u2 |-> ..., virtual_tcp |-> ..., host |-> ...]                 *)
(* that returns the world after the call, so that a handler's calls        *)
(* compose in the order the code makes them.  What the host operating      *)
(* system answers (socket, connect, poll, recv, send, accept ...) is an    *)
(* input of the call: the oracle record `o`.                               *)
(*                                                                         *)
(* u2.memory is the 32 KiB image, kept as the finite map of its non-zero   *)
(* bytes.  A frame the guest has laid down in a TX ring is kept as one     *)
(* record (u2.tx_frame) instead of its bytes, and the RX staging buffer    *)
(* of a socket is kept as the set of frames that lie intact in it.         *)
(***************************************************************************)
EXTENDS Integers, Sequences, FiniteSets, TLC

VARIABLES u2, virtual_tcp, host, result, last

vars == <<u2, virtual_tcp, host, result, last>>

(***************************************************************************)
(* Bounds of the model                                                     *)
(***************************************************************************)
\* descriptors the host lets the card hold open before socket() fails
MaxFds == 2
\* unconsumed frames in socket 0's RX buffer from which on the guest sends
\* nothing more
MaxFrames == 2
\* growth of virtual_tcp.our_seq above the initial sequence number from
\* which on the host sends no more data
MaxSeqGrowth == 3000
\* rounds of the post-send drain loop of handle_tcp_packet in which the host
\* has data
MaxDrain == 2
\* soft-switch accesses of a run of the soft-switch specification
MaxSteps == 5

(***************************************************************************)
(* Register map                                                            *)
(***************************************************************************)
W5100_MR == 0
W5100_GAR == 1
W5100_SUBR == 5
W5100_SHAR == 9
W5100_SIPR == 15
W5100_IR == 21
W5100_IMR == 22
W5100_RTR == 23
W5100_RCR == 25
W5100_RMSR == 26
W5100_TMSR == 27
W5100_PPTLR == 40

W5100_S0_BASE == 1024

Sn_MR == 0
Sn_CR == 1
Sn_IR == 2
Sn_SR == 3
Sn_PORT == 4
Sn_DIPR == 12
Sn_DPORT == 16
Sn_TTL == 22
Sn_TX_FSR == 32
Sn_TX_RD == 34
Sn_TX_WR == 36
Sn_RX_RSR == 38
Sn_RX_RD == 40

Sn_MR_TCP == 1
Sn_MR_UDP == 2
Sn_MR_MACRAW == 4

Sn_CR_OPEN == 1
Sn_CR_LISTEN == 2
Sn_CR_CONNECT == 4
Sn_CR_DISCON == 8
Sn_CR_CLOSE == 16
Sn_CR_SEND == 32
Sn_CR_RECV == 64

Sn_SR_CLOSED == 0
Sn_SR_INIT == 19
Sn_SR_LISTEN == 20
Sn_SR_SYNSENT == 21
Sn_SR_ESTABLISHED == 23
Sn_SR_CLOSE_WAIT == 28
Sn_SR_UDP == 34
Sn_SR_MACRAW == 66

W5100_TX_BASE == 16384
W5100_TX_SIZE == 8192
W5100_RX_BASE == 24576
W5100_RX_SIZE == 8192
SOCK_BUF_SIZE == 2048
\* sizeof(ss->rx_buf)
RX_BUF_SIZE == 4096
\* the size of w5100's memory image, 0x8000
MEM_SIZE == 32768

SW_MODE_REG == 4
SW_ADDR_HI == 5
SW_ADDR_LO == 6
SW_DATA_REG == 7

MR_RST == 128
MR_AI == 2

ETH_HEADER_LEN == 14
IPH_HEADER_LEN == 20
UDP_HEADER_LEN == 8
TCP_HEADER_LEN == 20

DHCP_DISCOVER == 1
DHCP_OFFER == 2
DHCP_REQUEST == 3
DHCP_ACK == 5

TCP_FIN == 1
TCP_SYN == 2
TCP_RST == 4
TCP_PSH == 8
TCP_ACK_FLAG == 16

VIRTUAL_SERVER_MAC == <<2, 0, 0, 0, 0, 1>>
VIRTUAL_CLIENT_IP == <<192, 168, 65, 100>>
VIRTUAL_SERVER_IP == <<192, 168, 65, 1>>
VIRTUAL_GATEWAY == <<192, 168, 65, 1>>
VIRTUAL_SUBNET == <<255, 255, 255, 0>>
VIRTUAL_DNS == <<8, 8, 8, 8>>
VIRTUAL_GATEWAY_MAC == <<2, 0, 222, 173, 190, 1>>
BROADCAST_MAC == <<255, 255, 255, 255, 255, 255>>
BROADCAST_IP == <<255, 255, 255, 255>>
\* 127.0.0.1, htonl(0x7F000001)
LOCALHOST == <<127, 0, 0, 1>>
\* virtual_tcp.our_seq = 12345, as <<high half, low half>>
INITIAL_SEQ == <<0, 12345>>

(***************************************************************************)
(* C integer arithmetic                                                    *)
(***************************************************************************)
RECURSIVE BitAnd(_, _)
\* a & b on non-negative integers, bit by bit
BitAnd(a, b) ==
    IF a = 0 \/ b = 0 THEN 0
    ELSE (a % 2) * (b % 2) + 2 * BitAnd(a \div 2, b \div 2)

\* x & m, for an int x that may be negative (two's complement) and a mask
\* 0 <= m < 2^16: the low 16 bits of x are those of x mod 2^16
And(x, m) == BitAnd(x % 65536, m)

\* (word)x : truncation to 16 bits on assignment to a `word`
Word16(x) == x % 65536

\* (byte)x : truncation to 8 bits on assignment to a `byte`
Byte8(x) == x % 256

HI(w0) == And(w0 \div 256, 255)
LO(w0) == And(w0, 255)
WORD(lo, hi) == And(lo, 255) + 256 * And(hi, 255)

(***************************************************************************)
(* The memory image: the map of the non-zero bytes                         *)
(***************************************************************************)
MemGet(m, a) == IF a \in DOMAIN m THEN m[a] ELSE 0

MemSet(m, a, v) ==
    IF v = 0 THEN [x \in (DOMAIN m) \ {a} |-> m[x]]
    ELSE [x \in (DOMAIN m) \cup {a} |-> IF x = a THEN v ELSE m[x]]

Mem(w, a) == MemGet(w.u2.memory, a)

Store(w, a, v) == [w EXCEPT !.u2.memory = MemSet(@, a, v)]

\* a big-endian 16-bit register: WORD(memory[a + 1], memory[a])
MemWord(w, a) == WORD(Mem(w, a + 1), Mem(w, a))

StoreWord(w, a, v) == Store(Store(w, a, HI(v)), a + 1, LO(v))

RECURSIVE StoreBytes(_, _, _)
\* memcpy(&u2.memory[a], bytes, Len(bytes))
StoreBytes(w, a, bytes) ==
    IF bytes = <<>> THEN w
    ELSE StoreBytes(Store(w, a, Head(bytes)), a + 1, Tail(bytes))

get_socket_base(socknum) == W5100_S0_BASE + (socknum * 256)

get_tx_base(socknum) == W5100_TX_BASE + (socknum * SOCK_BUF_SIZE)

get_rx_base(socknum) == W5100_RX_BASE + (socknum * SOCK_BUF_SIZE)

Sockets == 0..3

(***************************************************************************)
(* Frames.  One record shape serves the frames the guest sends and the     *)
(* frames the card injects: the header fields at their fixed offsets.      *)
(* sport/dport are the two 16-bit words that follow the IP header (the     *)
(* UDP or the TCP ports); dhcp_type is the value of option 53 as the       *)
(* option walk of detect_dhcp_type finds it, -1 when there is none.        *)
(***************************************************************************)
ZERO_MAC == <<0, 0, 0, 0, 0, 0>>
ZERO_IP == <<0, 0, 0, 0>>

NoFrame ==
    [len |-> 0, eth_dst |-> ZERO_MAC, eth_src |-> ZERO_MAC, ethertype |-> 0,
     arp_oper |-> 0, arp_sha |-> ZERO_MAC, arp_spa |-> ZERO_IP,
     arp_tha |-> ZERO_MAC, arp_tpa |-> ZERO_IP,
     ip_len |-> 0, ip_ttl |-> 0, ip_proto |-> 0, ip_src |-> ZERO_IP, ip_dst |-> ZERO_IP,
     sport |-> 0, dport |-> 0,
     tcp_seq |-> <<0, 0>>, tcp_ack |-> <<0, 0>>, tcp_hlen |-> 0, tcp_flags |-> 0, data_len |-> 0,
     dhcp_op |-> 0, dhcp_magic |-> FALSE, dhcp_type |-> -1, dhcp_xid |-> ZERO_IP,
     dhcp_chaddr |-> ZERO_MAC, dhcp_yiaddr |-> ZERO_IP, dhcp_siaddr |-> ZERO_IP,
     dhcp_server_id |-> ZERO_IP, dhcp_lease |-> 0, dhcp_subnet |-> ZERO_IP,
     dhcp_router |-> ZERO_IP, dhcp_dns |-> ZERO_IP]

\* flags & bit, for a single-bit mask
HasFlag(flags, bit) == And(flags, bit) # 0

(***************************************************************************)
(* The RX staging buffer ss->rx_buf, as the set of the frames that lie     *)
(* intact in it: [at |-> offset of the length word, prefix |-> the value   *)
(* of the length word (the bytes the frame occupies), frame |-> ...].      *)
(* A write over [at, at + n) destroys every frame it overlaps.             *)
(***************************************************************************)
Overlaps(e, at, n) == e.at < at + n /\ at < e.at + e.prefix

RxClobber(buf, at, n) == {e \in buf : ~Overlaps(e, at, n)}

RxPut(buf, at, n, f) ==
    RxClobber(buf, at, n) \cup {[at |-> at, prefix |-> n, frame |-> f]}

(***************************************************************************)
(* Host descriptors                                                        *)
(***************************************************************************)
\* the descriptor socket()/accept() returns: the lowest one not open
\* (0, 1 and 2 are the emulator's own stdin, stdout and stderr)
NewFd(w) == CHOOSE fd \in 3..(3 + Cardinality(w.host.open)) :
                fd \notin w.host.open /\ \A g \in 3..(fd - 1) : g \in w.host.open

\* whether the host can still hand out a descriptor
FdAvailable(w) == Cardinality(w.host.open) < MaxFds

HostOpen(w, fd) == [w EXCEPT !.host.open = @ \cup {fd}]

\* close(fd)
HostClose(w, fd) == [w EXCEPT !.host.open = @ \ {fd}]

(***************************************************************************)
(* Virtual DHCP                                                            *)
(***************************************************************************)
\* the length the DHCP payload is padded to
DHCP_MIN_LEN == 300

detect_dhcp_type(frame, len) ==
    IF len < 286 THEN -1
    ELSE IF frame.ethertype # 2048 THEN -1
    ELSE IF frame.ip_proto # 17 THEN -1
    ELSE IF frame.sport # 68 \/ frame.dport # 67 THEN -1
    ELSE IF ~frame.dhcp_magic THEN -1
    ELSE frame.dhcp_type

\* the fixed part of the reply up to the end option: 240 + 3 + 6*5 + 1 bytes
DhcpReplyLen ==
    LET opts == 240 + 3 + 6 + 6 + 6 + 6 + 6 + 1
    IN IF opts < DHCP_MIN_LEN THEN DHCP_MIN_LEN ELSE opts

inject_dhcp_response(w, socknum, is_ack) ==
    LET dhcp_len == DhcpReplyLen
        udp_len == UDP_HEADER_LEN + dhcp_len
        ip_len == IPH_HEADER_LEN + udp_len
        pos == 2 + ETH_HEADER_LEN + ip_len
        f == [NoFrame EXCEPT
                !.len = pos - 2,
                !.eth_dst = BROADCAST_MAC,
                !.eth_src = VIRTUAL_SERVER_MAC,
                !.ethertype = 2048,
                !.ip_len = ip_len,
                !.ip_ttl = 64,
                !.ip_proto = 17,
                !.ip_src = VIRTUAL_SERVER_IP,
                !.ip_dst = IF is_ack THEN VIRTUAL_CLIENT_IP ELSE BROADCAST_IP,
                !.sport = 67,
                !.dport = 68,
                !.dhcp_op = 2,
                !.dhcp_xid = w.u2.dhcp_xid,
                !.dhcp_yiaddr = VIRTUAL_CLIENT_IP,
                !.dhcp_siaddr = VIRTUAL_SERVER_IP,
                !.dhcp_chaddr = w.u2.client_mac,
                !.dhcp_magic = TRUE,
                !.dhcp_type = IF is_ack THEN DHCP_ACK ELSE DHCP_OFFER,
                !.dhcp_server_id = VIRTUAL_SERVER_IP,
                !.dhcp_lease = 86400,
                !.dhcp_subnet = VIRTUAL_SUBNET,
                !.dhcp_router = VIRTUAL_GATEWAY,
                !.dhcp_dns = VIRTUAL_DNS]
    IN [w EXCEPT !.u2.sockets[socknum].rx_buf = RxPut(@, 0, pos, f),
                 !.u2.sockets[socknum].rx_head = 0,
                 !.u2.sockets[socknum].rx_tail = pos]

(***************************************************************************)
(* Virtual ARP                                                             *)
(***************************************************************************)
inject_arp_reply(w, socknum, request_frame) ==
    LET pos == 2 + ETH_HEADER_LEN + 28
        f == [NoFrame EXCEPT
                !.len = pos - 2,
                !.eth_dst = request_frame.arp_sha,
                !.eth_src = VIRTUAL_GATEWAY_MAC,
                !.ethertype = 2054,
                !.arp_oper = 2,
                !.arp_sha = VIRTUAL_GATEWAY_MAC,
                !.arp_spa = <<192, 168, 65, 1>>,
                !.arp_tha = request_frame.arp_sha,
                !.arp_tpa = request_frame.arp_spa]
    IN [w EXCEPT !.u2.sockets[socknum].rx_buf = RxPut(@, 0, pos, f),
                 !.u2.sockets[socknum].rx_head = 0,
                 !.u2.sockets[socknum].rx_tail = pos]

\* handle_arp_packet without the test of the target protocol address
handle_arp_packet_AnyTarget(w, socknum, frame, len) ==
    IF len < 42 THEN w
    ELSE IF frame.arp_oper # 1 THEN w
    ELSE inject_arp_reply(w, socknum, frame)

handle_arp_packet(w, socknum, frame, len) ==
    IF len < 42 THEN w
    ELSE IF frame.arp_oper # 1 THEN w
    ELSE IF frame.arp_tpa # <<192, 168, 65, 1>> THEN w
    ELSE inject_arp_reply(w, socknum, frame)

(***************************************************************************)
(* Virtual TCP                                                             *)
(***************************************************************************)
\* A uint32_t (our_seq, their_seq, a frame's sequence numbers) is kept as its
\* two 16-bit halves <<high, low>>.  U32Add is s + n modulo 2^32, n >= 0.
U32Add(s, n) ==
    LET t == s[2] + n
    IN <<(s[1] + (t \div 65536)) % 65536, t % 65536>>

ZERO_SEQ == <<0, 0>>

inject_tcp_response(w, socknum, flags, data_len, o) ==
    LET ss == w.u2.sockets[socknum]
        vt == w.virtual_tcp
        pkt_base == ss.rx_tail
        tcp_len == TCP_HEADER_LEN + (IF data_len > 0 THEN data_len ELSE 0)
        ip_len == IPH_HEADER_LEN + tcp_len
        pos == pkt_base + 2 + ETH_HEADER_LEN + ip_len
        pkt_len == pos - pkt_base
        f == [NoFrame EXCEPT
                !.len = pkt_len - 2,
                !.eth_dst = vt.remote_mac,
                !.eth_src = VIRTUAL_GATEWAY_MAC,
                !.ethertype = 2048,
                !.ip_len = ip_len,
                !.ip_ttl = 64,
                !.ip_proto = 6,
                !.ip_src = vt.local_ip,
                !.ip_dst = vt.remote_ip,
                !.sport = vt.local_port,
                !.dport = vt.remote_port,
                !.tcp_seq = vt.our_seq,
                !.tcp_ack = vt.their_seq,
                !.tcp_hlen = 20,
                !.tcp_flags = flags,
                !.data_len = IF data_len > 0 THEN data_len ELSE 0]
    IN IF pos <= RX_BUF_SIZE
       THEN [w EXCEPT !.u2.sockets[socknum].rx_buf = RxPut(@, pkt_base, pkt_len, f),
                      !.u2.sockets[socknum].rx_tail = pos]
       \* pkt[pos++] runs past rx_buf[4095], into rx_head and what follows it
       \* in SocketState: an out-of-bounds write.  rx_tail is assigned after
       \* the writes; rx_head holds whatever bytes of the frame landed on it.
       ELSE [w EXCEPT !.u2.sockets[socknum].rx_buf = RxClobber(@, pkt_base, pkt_len),
                      !.u2.sockets[socknum].rx_tail = Word16(pos),
                      !.u2.sockets[socknum].rx_head = o.oob_head,
                      !.u2.oob = TRUE]

\* sizeof(recv_buf): the most one recv() from the host returns
SizeofRecvBuf == 1400

\* what recv(fd, recv_buf, sizeof(recv_buf), 0) returns when the host offers n
Recv(n) == IF n > SizeofRecvBuf THEN SizeofRecvBuf ELSE n

RECURSIVE DrainHost(_, _, _, _)
\* the loop `while (poll(&pfd, 1, 50) > 0)` of handle_tcp_packet; `rounds`
\* is what recv() returns in each round in which poll reports data
DrainHost(w, socknum, rounds, o) ==
    IF rounds = <<>> THEN w
    ELSE LET got == Recv(Head(rounds))
         IN IF got > 0
            THEN LET w1 == inject_tcp_response(w, socknum, TCP_ACK_FLAG + TCP_PSH, got, o)
                 IN DrainHost([w1 EXCEPT !.virtual_tcp.our_seq = U32Add(@, got)],
                              socknum, Tail(rounds), o)
            ELSE IF got = 0
            THEN LET w1 == inject_tcp_response(w, socknum, TCP_FIN + TCP_ACK_FLAG, 0, o)
                 IN [w1 EXCEPT !.virtual_tcp.fin_sent = TRUE,
                               !.virtual_tcp.our_seq = U32Add(@, 1)]
            ELSE w

\* the SYN branch without `virtual_tcp.our_seq++` after the SYN-ACK
TcpSyn_NoSynCount(w, socknum, frame, o) ==
    LET w1 == IF w.virtual_tcp.fd >= 0 THEN HostClose(w, w.virtual_tcp.fd) ELSE w
    IN IF ~(o.vsock /\ FdAvailable(w1))
       THEN inject_tcp_response([w1 EXCEPT !.virtual_tcp.fd = -1],
                                socknum, TCP_RST + TCP_ACK_FLAG, 0, o)
       ELSE LET fd == NewFd(w1)
                w2 == [HostOpen(w1, fd) EXCEPT
                          !.virtual_tcp.fd = fd,
                          !.host.target = [ip |-> LOCALHOST, port |-> frame.dport]]
            IN IF o.vconn = "fail" \/ o.vsoerr # 0
               THEN inject_tcp_response([HostClose(w2, fd) EXCEPT !.virtual_tcp.fd = -1],
                                        socknum, TCP_RST + TCP_ACK_FLAG, 0, o)
               ELSE LET w3 == [w2 EXCEPT
                                 !.virtual_tcp.remote_mac = frame.eth_src,
                                 !.virtual_tcp.remote_ip = frame.ip_src,
                                 !.virtual_tcp.local_ip = frame.ip_dst,
                                 !.virtual_tcp.remote_port = frame.sport,
                                 !.virtual_tcp.local_port = frame.dport,
                                 !.virtual_tcp.our_seq = INITIAL_SEQ,
                                 !.virtual_tcp.their_seq = U32Add(frame.tcp_seq, 1),
                                 !.virtual_tcp.established = FALSE,
                                 !.virtual_tcp.fin_sent = FALSE,
                                 !.virtual_tcp.fin_received = FALSE]
                        w4 == inject_tcp_response(w3, socknum, TCP_SYN + TCP_ACK_FLAG, 0, o)
                    IN w4

\* the SYN branch without the test of SO_ERROR after the wait
TcpSyn_IgnoreSoError(w, socknum, frame, o) ==
    LET w1 == IF w.virtual_tcp.fd >= 0 THEN HostClose(w, w.virtual_tcp.fd) ELSE w
    IN IF ~(o.vsock /\ FdAvailable(w1))
       THEN inject_tcp_response([w1 EXCEPT !.virtual_tcp.fd = -1],
                                socknum, TCP_RST + TCP_ACK_FLAG, 0, o)
       ELSE LET fd == NewFd(w1)
                w2 == [HostOpen(w1, fd) EXCEPT
                          !.virtual_tcp.fd = fd,
                          !.host.target = [ip |-> LOCALHOST, port |-> frame.dport]]
            IN IF o.vconn = "fail"
               THEN inject_tcp_response([HostClose(w2, fd) EXCEPT !.virtual_tcp.fd = -1],
                                        socknum, TCP_RST + TCP_ACK_FLAG, 0, o)
               ELSE LET w3 == [w2 EXCEPT
                                 !.virtual_tcp.remote_mac = frame.eth_src,
                                 !.virtual_tcp.remote_ip = frame.ip_src,
                                 !.virtual_tcp.local_ip = frame.ip_dst,
                                 !.virtual_tcp.remote_port = frame.sport,
                                 !.virtual_tcp.local_port = frame.dport,
                                 !.virtual_tcp.our_seq = INITIAL_SEQ,
                                 !.virtual_tcp.their_seq = U32Add(frame.tcp_seq, 1),
                                 !.virtual_tcp.established = FALSE,
                                 !.virtual_tcp.fin_sent = FALSE,
                                 !.virtual_tcp.fin_received = FALSE]
                        w4 == inject_tcp_response(w3, socknum, TCP_SYN + TCP_ACK_FLAG, 0, o)
                    IN [w4 EXCEPT !.virtual_tcp.our_seq = U32Add(@, 1)]

\* the SYN branch without the close() of the connection that exists
TcpSyn_NoClose(w, socknum, frame, o) ==
    LET w1 == w
    IN IF ~(o.vsock /\ FdAvailable(w1))
       THEN inject_tcp_response([w1 EXCEPT !.virtual_tcp.fd = -1],
                                socknum, TCP_RST + TCP_ACK_FLAG, 0, o)
       ELSE LET fd == NewFd(w1)
                w2 == [HostOpen(w1, fd) EXCEPT
                          !.virtual_tcp.fd = fd,
                          !.host.target = [ip |-> LOCALHOST, port |-> frame.dport]]
            IN IF o.vconn = "fail" \/ o.vsoerr # 0
               THEN inject_tcp_response([HostClose(w2, fd) EXCEPT !.virtual_tcp.fd = -1],
                                        socknum, TCP_RST + TCP_ACK_FLAG, 0, o)
               ELSE LET w3 == [w2 EXCEPT
                                 !.virtual_tcp.remote_mac = frame.eth_src,
                                 !.virtual_tcp.remote_ip = frame.ip_src,
                                 !.virtual_tcp.local_ip = frame.ip_dst,
                                 !.virtual_tcp.remote_port = frame.sport,
                                 !.virtual_tcp.local_port = frame.dport,
                                 !.virtual_tcp.our_seq = INITIAL_SEQ,
                                 !.virtual_tcp.their_seq = U32Add(frame.tcp_seq, 1),
                                 !.virtual_tcp.established = FALSE,
                                 !.virtual_tcp.fin_sent = FALSE,
                                 !.virtual_tcp.fin_received = FALSE]
                        w4 == inject_tcp_response(w3, socknum, TCP_SYN + TCP_ACK_FLAG, 0, o)
                    IN [w4 EXCEPT !.virtual_tcp.our_seq = U32Add(@, 1)]

\* the branch `if ((flags & TCP_SYN) && !(flags & TCP_ACK_FLAG))`
TcpSyn(w, socknum, frame, o) ==
    LET w1 == IF w.virtual_tcp.fd >= 0 THEN HostClose(w, w.virtual_tcp.fd) ELSE w
    IN IF ~(o.vsock /\ FdAvailable(w1))
       THEN inject_tcp_response([w1 EXCEPT !.virtual_tcp.fd = -1],
                                socknum, TCP_RST + TCP_ACK_FLAG, 0, o)
       ELSE LET fd == NewFd(w1)
                w2 == [HostOpen(w1, fd) EXCEPT
                          !.virtual_tcp.fd = fd,
                          !.host.target = [ip |-> LOCALHOST, port |-> frame.dport]]
            IN IF o.vconn = "fail" \/ o.vsoerr # 0
               THEN inject_tcp_response([HostClose(w2, fd) EXCEPT !.virtual_tcp.fd = -1],
                                        socknum, TCP_RST + TCP_ACK_FLAG, 0, o)
               ELSE LET w3 == [w2 EXCEPT
                                 !.virtual_tcp.remote_mac = frame.eth_src,
                                 !.virtual_tcp.remote_ip = frame.ip_src,
                                 !.virtual_tcp.local_ip = frame.ip_dst,
                                 !.virtual_tcp.remote_port = frame.sport,
                                 !.virtual_tcp.local_port = frame.dport,
                                 !.virtual_tcp.our_seq = INITIAL_SEQ,
                                 !.virtual_tcp.their_seq = U32Add(frame.tcp_seq, 1),
                                 !.virtual_tcp.established = FALSE,
                                 !.virtual_tcp.fin_sent = FALSE,
                                 !.virtual_tcp.fin_received = FALSE]
                        w4 == inject_tcp_response(w3, socknum, TCP_SYN + TCP_ACK_FLAG, 0, o)
                    IN [w4 EXCEPT !.virtual_tcp.our_seq = U32Add(@, 1)]

\* the branch `if (flags & TCP_ACK_FLAG)`
TcpAck(w, socknum, frame, o) ==
    LET flags == frame.tcp_flags
        tcp_data_len == frame.ip_len - IPH_HEADER_LEN - frame.tcp_hlen
        w1 == IF ~w.virtual_tcp.established /\ ~HasFlag(flags, TCP_SYN)
              THEN [w EXCEPT !.virtual_tcp.established = TRUE]
              ELSE w
    IN IF tcp_data_len > 0
       THEN LET w2 == IF w1.virtual_tcp.fd >= 0
                      THEN [w1 EXCEPT !.host.sent = [fd |-> w1.virtual_tcp.fd,
                                                     n |-> tcp_data_len]]
                      ELSE w1
                w3 == [w2 EXCEPT !.virtual_tcp.their_seq = U32Add(frame.tcp_seq, tcp_data_len)]
                w4 == inject_tcp_response(w3, socknum, TCP_ACK_FLAG, 0, o)
            IN IF w4.virtual_tcp.fd >= 0
               THEN DrainHost(w4, socknum, o.drain, o)
               ELSE w4
       ELSE w1

\* the FIN branch without the test of fin_sent
TcpFin_Always(w, socknum, o) ==
    LET w1 == [w EXCEPT !.virtual_tcp.fin_received = TRUE,
                        !.virtual_tcp.their_seq = U32Add(@, 1)]
        w2 == inject_tcp_response(w1, socknum, TCP_ACK_FLAG, 0, o)
        w3 == IF TRUE
              THEN [inject_tcp_response(w2, socknum, TCP_FIN + TCP_ACK_FLAG, 0, o) EXCEPT
                       !.virtual_tcp.fin_sent = TRUE,
                       !.virtual_tcp.our_seq = U32Add(@, 1)]
              ELSE w2
        w4 == IF w3.virtual_tcp.fd >= 0
              THEN [HostClose(w3, w3.virtual_tcp.fd) EXCEPT !.virtual_tcp.fd = -1]
              ELSE w3
    IN [w4 EXCEPT !.virtual_tcp.established = FALSE]

\* the branch `if (flags & TCP_FIN)`
TcpFin(w, socknum, o) ==
    LET w1 == [w EXCEPT !.virtual_tcp.fin_received = TRUE,
                        !.virtual_tcp.their_seq = U32Add(@, 1)]
        w2 == inject_tcp_response(w1, socknum, TCP_ACK_FLAG, 0, o)
        w3 == IF ~w2.virtual_tcp.fin_sent
              THEN [inject_tcp_response(w2, socknum, TCP_FIN + TCP_ACK_FLAG, 0, o) EXCEPT
                       !.virtual_tcp.fin_sent = TRUE,
                       !.virtual_tcp.our_seq = U32Add(@, 1)]
              ELSE w2
        w4 == IF w3.virtual_tcp.fd >= 0
              THEN [HostClose(w3, w3.virtual_tcp.fd) EXCEPT !.virtual_tcp.fd = -1]
              ELSE w3
    IN [w4 EXCEPT !.virtual_tcp.established = FALSE]

handle_tcp_packet(w, socknum, frame, len, o) ==
    IF len < ETH_HEADER_LEN + IPH_HEADER_LEN + TCP_HEADER_LEN THEN w
    ELSE LET flags == frame.tcp_flags
         IN IF HasFlag(flags, TCP_SYN) /\ ~HasFlag(flags, TCP_ACK_FLAG)
            THEN TcpSyn(w, socknum, frame, o)
            ELSE LET w1 == IF HasFlag(flags, TCP_ACK_FLAG)
                           THEN TcpAck(w, socknum, frame, o)
                           ELSE w
                 IN IF HasFlag(flags, TCP_FIN) THEN TcpFin(w1, socknum, o) ELSE w1

virtual_tcp_poll(w, socknum, o) ==
    IF w.virtual_tcp.fd < 0 \/ ~w.virtual_tcp.established THEN w
    ELSE IF ~o.vpoll THEN w
    ELSE IF Recv(o.vgot) > 0
    THEN [inject_tcp_response(w, socknum, TCP_ACK_FLAG + TCP_PSH, Recv(o.vgot), o) EXCEPT
             !.virtual_tcp.our_seq = U32Add(@, Recv(o.vgot))]
    ELSE IF o.vgot = 0
    THEN LET w1 == IF ~w.virtual_tcp.fin_sent
                   THEN [inject_tcp_response(w, socknum, TCP_FIN + TCP_ACK_FLAG, 0, o) EXCEPT
                            !.virtual_tcp.fin_sent = TRUE,
                            !.virtual_tcp.our_seq = U32Add(@, 1)]
                   ELSE w
         IN [HostClose(w1, w1.virtual_tcp.fd) EXCEPT !.virtual_tcp.fd = -1]
    ELSE w

(***************************************************************************)
(* MAC-raw SEND                                                            *)
(***************************************************************************)
\* u2.tx_frame maps a socket to the frame the guest laid down in its TX ring,
\* [at |-> ring offset, frame |-> ...]; a socket whose ring holds nothing the
\* card recognises is not in its domain
NoImages == <<>>

DropImage(imgs, sn) == [x \in (DOMAIN imgs) \ {sn} |-> imgs[x]]

PutImage(imgs, sn, img) == (sn :> img) @@ DropImage(imgs, sn)

\* the loop that gathers frame[0 .. frame_len) from the TX ring, starting at
\* ring offset (tx_rd - tx_base) & tx_mask: the frame the guest laid down
\* there, or bytes the card recognises nothing in
ReadTxFrame(w, socknum, tx_rd, frame_len) ==
    LET start == And(tx_rd - get_tx_base(socknum), SOCK_BUF_SIZE - 1)
    IN IF socknum \in DOMAIN w.u2.tx_frame /\ w.u2.tx_frame[socknum].at = start
       THEN w.u2.tx_frame[socknum].frame
       ELSE NoFrame

\* the DHCP branch of handle_macraw_send
\* handle_macraw_send without the copy of the lease into SIPR, GAR and SUBR
MacrawDhcp_NoConfig(w, socknum, frame, dhcp_type) ==
    LET w1 == [w EXCEPT !.u2.dhcp_xid = frame.dhcp_xid,
                        !.u2.client_mac = frame.dhcp_chaddr]
    IN IF dhcp_type = DHCP_DISCOVER
       THEN [inject_dhcp_response(w1, socknum, FALSE) EXCEPT
                !.u2.dhcp_state = "DHCP_OFFER_SENT"]
       ELSE IF dhcp_type = DHCP_REQUEST
       THEN [inject_dhcp_response(w1, socknum, TRUE) EXCEPT
                !.u2.dhcp_state = "DHCP_COMPLETE"]
       ELSE w1

\* handle_macraw_send answering every message that is no REQUEST with an OFFER
MacrawDhcp_Eager(w, socknum, frame, dhcp_type) ==
    LET w1 == [w EXCEPT !.u2.dhcp_xid = frame.dhcp_xid,
                        !.u2.client_mac = frame.dhcp_chaddr]
    IN IF dhcp_type # DHCP_REQUEST
       THEN [inject_dhcp_response(w1, socknum, FALSE) EXCEPT
                !.u2.dhcp_state = "DHCP_OFFER_SENT"]
       ELSE LET w2 == [inject_dhcp_response(w1, socknum, TRUE) EXCEPT
                          !.u2.dhcp_state = "DHCP_COMPLETE"]
                w3 == StoreBytes(w2, W5100_SIPR, VIRTUAL_CLIENT_IP)
                w4 == StoreBytes(w3, W5100_GAR, VIRTUAL_GATEWAY)
            IN StoreBytes(w4, W5100_SUBR, VIRTUAL_SUBNET)

MacrawDhcp(w, socknum, frame, dhcp_type) ==
    LET w1 == [w EXCEPT !.u2.dhcp_xid = frame.dhcp_xid,
                        !.u2.client_mac = frame.dhcp_chaddr]
    IN IF dhcp_type = DHCP_DISCOVER
       THEN [inject_dhcp_response(w1, socknum, FALSE) EXCEPT
                !.u2.dhcp_state = "DHCP_OFFER_SENT"]
       ELSE IF dhcp_type = DHCP_REQUEST
       THEN LET w2 == [inject_dhcp_response(w1, socknum, TRUE) EXCEPT
                          !.u2.dhcp_state = "DHCP_COMPLETE"]
                w3 == StoreBytes(w2, W5100_SIPR, VIRTUAL_CLIENT_IP)
                w4 == StoreBytes(w3, W5100_GAR, VIRTUAL_GATEWAY)
            IN StoreBytes(w4, W5100_SUBR, VIRTUAL_SUBNET)
       ELSE w1

handle_macraw_send(w, socknum, o) ==
    LET base == get_socket_base(socknum)
        tx_rd == MemWord(w, base + Sn_TX_RD)
        tx_wr == MemWord(w, base + Sn_TX_WR)
        tx_mask == SOCK_BUF_SIZE - 1
        frame_len == And(tx_wr - tx_rd, tx_mask)
    IN IF frame_len <= 0 \/ frame_len > 1600 THEN w
       ELSE LET frame == ReadTxFrame(w, socknum, tx_rd, frame_len)
                w1 == StoreWord(w, base + Sn_TX_RD, tx_wr)
                dhcp_type == detect_dhcp_type(frame, frame_len)
            IN IF dhcp_type > 0 THEN MacrawDhcp(w1, socknum, frame, dhcp_type)
               ELSE IF frame_len < ETH_HEADER_LEN THEN w1
               ELSE IF frame.ethertype = 2054
               THEN handle_arp_packet(w1, socknum, frame, frame_len)
               ELSE IF frame.ethertype = 2048
                       /\ frame_len >= ETH_HEADER_LEN + IPH_HEADER_LEN
                       /\ frame.ip_proto = 6
                       /\ frame.ip_dst[1] = 192 /\ frame.ip_dst[2] = 168
                       /\ (frame.ip_dst[3] = 64 \/ frame.ip_dst[3] = 65)
               THEN handle_tcp_packet(w1, socknum, frame, frame_len, o)
               ELSE w1

(***************************************************************************)
(* W5100 core                                                              *)
(***************************************************************************)
ClosedSocket ==
    [fd |-> -1, connecting |-> FALSE, rx_buf |-> {}, rx_head |-> 0, rx_tail |-> 0,
     macraw_mode |-> FALSE]

RECURSIVE ResetSocketRegs(_, _)
\* the loop "Initialize all sockets" of w5100_reset, sockets i .. 3
ResetSocketRegs(m, i) ==
    IF i > 3 THEN m
    ELSE LET base == get_socket_base(i)
             tx_base == get_tx_base(i)
             rx_base == get_rx_base(i)
             m1 == MemSet(m, base + Sn_SR, Sn_SR_CLOSED)
             m2 == MemSet(m1, base + Sn_TTL, 128)
             m3 == MemSet(MemSet(m2, base + Sn_TX_RD, HI(tx_base)),
                          base + Sn_TX_RD + 1, LO(tx_base))
             m4 == MemSet(MemSet(m3, base + Sn_TX_WR, HI(tx_base)),
                          base + Sn_TX_WR + 1, LO(tx_base))
             m5 == MemSet(MemSet(m4, base + Sn_TX_FSR, HI(SOCK_BUF_SIZE)),
                          base + Sn_TX_FSR + 1, LO(SOCK_BUF_SIZE))
             m6 == MemSet(MemSet(m5, base + Sn_RX_RD, HI(rx_base)),
                          base + Sn_RX_RD + 1, LO(rx_base))
             m7 == MemSet(MemSet(m6, base + Sn_RX_RSR, 0), base + Sn_RX_RSR + 1, 0)
         IN ResetSocketRegs(m7, i + 1)

\* the common registers w5100_reset seeds after memset(&u2, 0, sizeof(u2))
ResetCommonRegs ==
    (W5100_SHAR + 0 :> 2) @@ (W5100_SHAR + 2 :> 222) @@ (W5100_SHAR + 3 :> 173)
    @@ (W5100_SHAR + 4 :> 190) @@ (W5100_SHAR + 5 :> 239)
    @@ (W5100_SIPR + 0 :> 192) @@ (W5100_SIPR + 1 :> 168) @@ (W5100_SIPR + 2 :> 1)
    @@ (W5100_SIPR + 3 :> 100)
    @@ (W5100_GAR + 0 :> 192) @@ (W5100_GAR + 1 :> 168) @@ (W5100_GAR + 2 :> 1)
    @@ (W5100_GAR + 3 :> 1)
    @@ (W5100_SUBR + 0 :> 255) @@ (W5100_SUBR + 1 :> 255) @@ (W5100_SUBR + 2 :> 255)
    @@ (W5100_RTR + 0 :> 7) @@ (W5100_RTR + 1 :> 208)
    @@ (W5100_RCR :> 8)
    @@ (W5100_RMSR :> 85) @@ (W5100_TMSR :> 85)

\* the descriptors the first loop of w5100_reset closes
ResetClosedFds(w) ==
    {w.u2.sockets[i].fd : i \in {j \in Sockets : w.u2.initialized /\ w.u2.sockets[j].fd > 2}}

\* u2.memory as w5100_reset leaves it
ResetMemory == ResetSocketRegs(ResetCommonRegs, 0)

\* w5100_reset without its memset: the seeded registers over the old image
w5100_reset_NoMemset(w) ==
    [w EXCEPT !.host.open = @ \ ResetClosedFds(w),
              !.u2 = [memory |-> ResetMemory @@ w.u2.memory,
                      tx_frame |-> NoImages,
                      addr_ptr |-> 0,
                      mode |-> 0,
                      sockets |-> [i \in Sockets |-> ClosedSocket],
                      initialized |-> TRUE,
                      dhcp_state |-> "DHCP_IDLE",
                      dhcp_xid |-> ZERO_IP,
                      client_mac |-> ZERO_MAC,
                      oob |-> FALSE]]

\* w5100_reset without the loop that clears the socket adapters
w5100_reset_KeepAdapters(w) ==
    [w EXCEPT !.host.open = @ \ ResetClosedFds(w),
              !.u2 = [memory |-> ResetMemory,
                      tx_frame |-> NoImages,
                      addr_ptr |-> 0,
                      mode |-> 0,
                      sockets |-> w.u2.sockets,
                      initialized |-> TRUE,
                      dhcp_state |-> "DHCP_IDLE",
                      dhcp_xid |-> ZERO_IP,
                      client_mac |-> ZERO_MAC,
                      oob |-> FALSE]]

w5100_reset(w) ==
    [w EXCEPT !.host.open = @ \ ResetClosedFds(w),
              !.u2 = [memory |-> ResetMemory,
                      tx_frame |-> NoImages,
                      addr_ptr |-> 0,
                      mode |-> 0,
                      sockets |-> [i \in Sockets |-> ClosedSocket],
                      initialized |-> TRUE,
                      dhcp_state |-> "DHCP_IDLE",
                      dhcp_xid |-> ZERO_IP,
                      client_mac |-> ZERO_MAC,
                      oob |-> FALSE]]

(***************************************************************************)
(* Socket commands                                                         *)
(***************************************************************************)
\* ss->fd = socket(...): the new descriptor, or -1
HostSocket(w, socknum, o) ==
    IF o.sock /\ FdAvailable(w)
    THEN [HostOpen(w, NewFd(w)) EXCEPT !.u2.sockets[socknum].fd = NewFd(w)]
    ELSE [w EXCEPT !.u2.sockets[socknum].fd = -1]

\* OPEN accepting MAC-raw mode on every socket
CmdOpen_AnySocket(w, socknum, o) ==
    LET base == get_socket_base(socknum)
        mode == Mem(w, base + Sn_MR)
    IN IF mode = Sn_MR_TCP
       THEN LET w1 == HostSocket(w, socknum, o)
            IN IF w1.u2.sockets[socknum].fd >= 0
               THEN Store(w1, base + Sn_SR, Sn_SR_INIT)
               ELSE w1
       ELSE IF mode = Sn_MR_UDP
       THEN LET w1 == HostSocket(w, socknum, o)
            IN IF w1.u2.sockets[socknum].fd >= 0
               THEN Store(w1, base + Sn_SR, Sn_SR_UDP)
               ELSE w1
       ELSE IF And(mode, 15) = Sn_MR_MACRAW
       THEN LET w1 == [w EXCEPT !.u2.sockets[socknum].fd = -1,
                                !.u2.sockets[socknum].macraw_mode = TRUE,
                                !.u2.sockets[socknum].rx_head = 0,
                                !.u2.sockets[socknum].rx_tail = 0]
                w2 == StoreWord(w1, base + Sn_RX_RD, get_rx_base(socknum))
            IN Store(w2, base + Sn_SR, Sn_SR_MACRAW)
       ELSE w

CmdOpen(w, socknum, o) ==
    LET base == get_socket_base(socknum)
        mode == Mem(w, base + Sn_MR)
    IN IF mode = Sn_MR_TCP
       THEN LET w1 == HostSocket(w, socknum, o)
            IN IF w1.u2.sockets[socknum].fd >= 0
               THEN Store(w1, base + Sn_SR, Sn_SR_INIT)
               ELSE w1
       ELSE IF mode = Sn_MR_UDP
       THEN LET w1 == HostSocket(w, socknum, o)
            IN IF w1.u2.sockets[socknum].fd >= 0
               THEN Store(w1, base + Sn_SR, Sn_SR_UDP)
               ELSE w1
       ELSE IF And(mode, 15) = Sn_MR_MACRAW /\ socknum = 0
       THEN LET w1 == [w EXCEPT !.u2.sockets[socknum].fd = -1,
                                !.u2.sockets[socknum].macraw_mode = TRUE,
                                !.u2.sockets[socknum].rx_head = 0,
                                !.u2.sockets[socknum].rx_tail = 0]
                w2 == StoreWord(w1, base + Sn_RX_RD, get_rx_base(socknum))
            IN Store(w2, base + Sn_SR, Sn_SR_MACRAW)
       ELSE w

CmdListen(w, socknum, o) ==
    LET base == get_socket_base(socknum)
        ss == w.u2.sockets[socknum]
    IN IF ss.fd >= 0 /\ Mem(w, base + Sn_SR) = Sn_SR_INIT
       THEN IF o.bind /\ o.listen
            THEN Store(w, base + Sn_SR, Sn_SR_LISTEN)
            ELSE w
       ELSE w

\* the destination of CONNECT with 192.168.65.x alone redirected
ConnectAddr_Only65(w, socknum) ==
    LET base == get_socket_base(socknum)
        ip0 == Mem(w, base + Sn_DIPR + 0)
        ip1 == Mem(w, base + Sn_DIPR + 1)
        ip2 == Mem(w, base + Sn_DIPR + 2)
        ip3 == Mem(w, base + Sn_DIPR + 3)
    IN [ip |-> IF ip0 = 192 /\ ip1 = 168 /\ ip2 = 65
               THEN LOCALHOST
               ELSE <<ip0, ip1, ip2, ip3>>,
        port |-> MemWord(w, base + Sn_DPORT)]

\* the destination address CONNECT hands to connect()
ConnectAddr(w, socknum) ==
    LET base == get_socket_base(socknum)
        ip0 == Mem(w, base + Sn_DIPR + 0)
        ip1 == Mem(w, base + Sn_DIPR + 1)
        ip2 == Mem(w, base + Sn_DIPR + 2)
        ip3 == Mem(w, base + Sn_DIPR + 3)
    IN [ip |-> IF ip0 = 192 /\ ip1 = 168 /\ (ip2 = 64 \/ ip2 = 65)
               THEN LOCALHOST
               ELSE <<ip0, ip1, ip2, ip3>>,
        port |-> MemWord(w, base + Sn_DPORT)]

\* CONNECT without the check of the status register
CmdConnect_NoStatusCheck(w, socknum, o) ==
    LET base == get_socket_base(socknum)
        ss == w.u2.sockets[socknum]
    IN IF ss.fd >= 0
       THEN LET w1 == [w EXCEPT !.host.target = ConnectAddr(w, socknum)]
            IN IF o.conn = "ok"
               THEN Store(w1, base + Sn_SR, Sn_SR_ESTABLISHED)
               ELSE IF o.conn = "inprogress"
               THEN Store([w1 EXCEPT !.u2.sockets[socknum].connecting = TRUE],
                          base + Sn_SR, Sn_SR_SYNSENT)
               ELSE Store(w1, base + Sn_SR, Sn_SR_CLOSED)
       ELSE w

CmdConnect(w, socknum, o) ==
    LET base == get_socket_base(socknum)
        ss == w.u2.sockets[socknum]
    IN IF ss.fd >= 0 /\ Mem(w, base + Sn_SR) = Sn_SR_INIT
       THEN LET w1 == [w EXCEPT !.host.target = ConnectAddr(w, socknum)]
            IN IF o.conn = "ok"
               THEN Store(w1, base + Sn_SR, Sn_SR_ESTABLISHED)
               ELSE IF o.conn = "inprogress"
               THEN Store([w1 EXCEPT !.u2.sockets[socknum].connecting = TRUE],
                          base + Sn_SR, Sn_SR_SYNSENT)
               ELSE Store(w1, base + Sn_SR, Sn_SR_CLOSED)
       ELSE w

\* CLOSE and DISCON without `ss->connecting = false`
CmdClose_StillConnecting(w, socknum) ==
    LET base == get_socket_base(socknum)
        ss == w.u2.sockets[socknum]
        w1 == IF ss.fd >= 0
              THEN [HostClose(w, ss.fd) EXCEPT !.u2.sockets[socknum].fd = -1]
              ELSE w
        w2 == [w1 EXCEPT !.u2.sockets[socknum].macraw_mode = FALSE,
                         !.u2.sockets[socknum].rx_head = 0,
                         !.u2.sockets[socknum].rx_tail = 0]
    IN Store(w2, base + Sn_SR, Sn_SR_CLOSED)

CmdClose(w, socknum) ==
    LET base == get_socket_base(socknum)
        ss == w.u2.sockets[socknum]
        w1 == IF ss.fd >= 0
              THEN [HostClose(w, ss.fd) EXCEPT !.u2.sockets[socknum].fd = -1]
              ELSE w
        w2 == [w1 EXCEPT !.u2.sockets[socknum].connecting = FALSE,
                         !.u2.sockets[socknum].macraw_mode = FALSE,
                         !.u2.sockets[socknum].rx_head = 0,
                         !.u2.sockets[socknum].rx_tail = 0]
    IN Store(w2, base + Sn_SR, Sn_SR_CLOSED)

\* the gather loop reading on past the end of the ring
GatherTx_NoWrap(w, socknum, tx_rd, send_size) ==
    LET tx_base == get_tx_base(socknum)
        start == (tx_rd - tx_base) % SOCK_BUF_SIZE
    IN [i \in 1..send_size |-> MemGet(w.u2.memory, tx_base + start + (i - 1))]

\* "Gather data from circular buffer": sendbuf[0 .. send_size), where
\* x & (SOCK_BUF_SIZE - 1) is the remainder of x modulo 2048
GatherTx(w, socknum, tx_rd, send_size) ==
    LET tx_base == get_tx_base(socknum)
        start == (tx_rd - tx_base) % SOCK_BUF_SIZE
    IN [i \in 1..send_size |->
           MemGet(w.u2.memory, tx_base + ((start + (i - 1)) % SOCK_BUF_SIZE))]

CmdSend(w, socknum, o) ==
    LET base == get_socket_base(socknum)
        ss == w.u2.sockets[socknum]
    IN IF Mem(w, base + Sn_SR) = Sn_SR_MACRAW /\ ss.macraw_mode
       THEN handle_macraw_send(w, socknum, o)
       ELSE IF ss.fd >= 0 /\ Mem(w, base + Sn_SR) = Sn_SR_ESTABLISHED
       THEN LET tx_rd == MemWord(w, base + Sn_TX_RD)
                tx_wr == MemWord(w, base + Sn_TX_WR)
                send_size == Word16(And(tx_wr - tx_rd, SOCK_BUF_SIZE - 1))
                \* what send() returns: -1, or the bytes it accepted
                sent == IF o.sent > send_size THEN send_size ELSE o.sent
            IN IF send_size > 0
               THEN LET w1 == [w EXCEPT !.host.sent = [fd |-> ss.fd, n |-> sent],
                                        !.host.sendbuf =
                                            GatherTx(w, socknum, tx_rd, send_size)]
                    IN IF sent > 0
                       THEN StoreWord(w1, base + Sn_TX_RD, Word16(tx_rd + sent))
                       ELSE w1
               ELSE w
       ELSE w

\* RECV that resets the buffer without snapping Sn_RX_RD
CmdRecv_NoSnap(w, socknum) ==
    LET base == get_socket_base(socknum)
        ss == w.u2.sockets[socknum]
    IN IF ss.fd >= 0 \/ ss.macraw_mode
       THEN LET rx_rd == MemWord(w, base + Sn_RX_RD)
                rx_base == get_rx_base(socknum)
                claimed_read == Word16(And(rx_rd - rx_base, SOCK_BUF_SIZE - 1))
            IN IF ss.macraw_mode
               THEN LET consumed == And(claimed_read - ss.rx_head, SOCK_BUF_SIZE - 1)
                        head == Word16(ss.rx_head + consumed)
                    IN IF consumed > 0
                       THEN IF head >= ss.rx_tail
                            THEN [w EXCEPT !.u2.sockets[socknum].rx_head = 0,
                                          !.u2.sockets[socknum].rx_tail = 0]
                            ELSE [w EXCEPT !.u2.sockets[socknum].rx_head = head]
                       ELSE w
               ELSE IF claimed_read # ss.rx_head
               THEN [w EXCEPT !.u2.sockets[socknum].rx_head = claimed_read]
               ELSE w
       ELSE w

CmdRecv(w, socknum) ==
    LET base == get_socket_base(socknum)
        ss == w.u2.sockets[socknum]
    IN IF ss.fd >= 0 \/ ss.macraw_mode
       THEN LET rx_rd == MemWord(w, base + Sn_RX_RD)
                rx_base == get_rx_base(socknum)
                claimed_read == Word16(And(rx_rd - rx_base, SOCK_BUF_SIZE - 1))
            IN IF ss.macraw_mode
               THEN LET consumed == And(claimed_read - ss.rx_head, SOCK_BUF_SIZE - 1)
                        head == Word16(ss.rx_head + consumed)
                    IN IF consumed > 0
                       THEN IF head >= ss.rx_tail
                            THEN StoreWord([w EXCEPT !.u2.sockets[socknum].rx_head = 0,
                                                     !.u2.sockets[socknum].rx_tail = 0],
                                           base + Sn_RX_RD, rx_base)
                            ELSE [w EXCEPT !.u2.sockets[socknum].rx_head = head]
                       ELSE w
               ELSE IF claimed_read # ss.rx_head
               THEN [w EXCEPT !.u2.sockets[socknum].rx_head = claimed_read]
               ELSE w
       ELSE w

\* the switch (cmd) of socket_command
CmdDispatch(w, socknum, cmd, o) ==
    IF cmd = Sn_CR_OPEN THEN CmdOpen(w, socknum, o)
    ELSE IF cmd = Sn_CR_LISTEN THEN CmdListen(w, socknum, o)
    ELSE IF cmd = Sn_CR_CONNECT THEN CmdConnect(w, socknum, o)
    ELSE IF cmd = Sn_CR_DISCON \/ cmd = Sn_CR_CLOSE THEN CmdClose(w, socknum)
    ELSE IF cmd = Sn_CR_SEND THEN CmdSend(w, socknum, o)
    ELSE IF cmd = Sn_CR_RECV THEN CmdRecv(w, socknum)
    ELSE w

\* socket_command leaving the command byte in the register
socket_command_Latched(w, socknum, cmd, o) ==
    Store(CmdDispatch(w, socknum, cmd, o), get_socket_base(socknum) + Sn_CR, cmd)

socket_command(w, socknum, cmd, o) ==
    Store(CmdDispatch(w, socknum, cmd, o), get_socket_base(socknum) + Sn_CR, 0)

(***************************************************************************)
(* Polling                                                                 *)
(***************************************************************************)
\* "Check for connect completion"
PollConnect(w, socknum, o) ==
    LET base == get_socket_base(socknum)
    IN IF w.u2.sockets[socknum].connecting /\ o.pollout
       THEN [Store(w, base + Sn_SR,
                   IF o.soerr = 0 THEN Sn_SR_ESTABLISHED ELSE Sn_SR_CLOSED)
             EXCEPT !.u2.sockets[socknum].connecting = FALSE]
       ELSE w

\* "Check for incoming data (if established)"
PollData(w, socknum, o) ==
    LET base == get_socket_base(socknum)
        ss == w.u2.sockets[socknum]
        space == Word16(RX_BUF_SIZE - And(ss.rx_tail - ss.rx_head, 4095))
        write_pos == Word16(And(ss.rx_tail, RX_BUF_SIZE - 1))
        room == Word16(RX_BUF_SIZE - write_pos)
        can_read == IF room > space THEN space ELSE room
        \* what recv() returns: -1, 0, or at most can_read bytes
        got == IF o.got > can_read THEN can_read ELSE o.got
    IN IF Mem(w, base + Sn_SR) = Sn_SR_ESTABLISHED /\ o.pollin /\ space > 0
       THEN IF got > 0
            THEN [w EXCEPT !.u2.sockets[socknum].rx_buf = RxClobber(@, write_pos, got),
                           !.u2.sockets[socknum].rx_tail = Word16(And(ss.rx_tail + got, 4095))]
            ELSE IF got = 0
            THEN Store(w, base + Sn_SR, Sn_SR_CLOSE_WAIT)
            ELSE w
       ELSE w

\* "Check for incoming connections (if listening)"
PollAccept(w, socknum, o) ==
    LET base == get_socket_base(socknum)
        ss == w.u2.sockets[socknum]
    IN IF Mem(w, base + Sn_SR) = Sn_SR_LISTEN /\ o.pollin /\ o.accept /\ FdAvailable(w)
       THEN LET newfd == NewFd(w)
                w1 == HostClose(HostOpen(w, newfd), ss.fd)
            IN Store([w1 EXCEPT !.u2.sockets[socknum].fd = newfd],
                     base + Sn_SR, Sn_SR_ESTABLISHED)
       ELSE w

socket_poll(w, socknum, o) ==
    IF w.u2.sockets[socknum].fd < 0 THEN w
    ELSE PollAccept(PollData(PollConnect(w, socknum, o), socknum, o), socknum, o)

(***************************************************************************)
(* Register access                                                         *)
(***************************************************************************)
\* ss->rx_buf[buf_offset]: the length word and the Ethernet header of a frame
\* that lies intact over the offset; the model keeps no other byte of it
RxByte(buf, off) ==
    IF \E e \in buf : e.at <= off /\ off < e.at + 2 + ETH_HEADER_LEN
    THEN LET e == CHOOSE x \in buf : x.at <= off /\ off < x.at + 2 + ETH_HEADER_LEN
             i == off - e.at
         IN IF i = 0 THEN And(e.prefix \div 256, 255)
            ELSE IF i = 1 THEN And(e.prefix, 255)
            ELSE IF i < 8 THEN e.frame.eth_dst[i - 1]
            ELSE IF i < 14 THEN e.frame.eth_src[i - 7]
            ELSE IF i = 14 THEN HI(e.frame.ethertype)
            ELSE LO(e.frame.ethertype)
    ELSE 0

\* the byte stored in the image at addr, computed registers included
ReadValue_Stored(w, addr) == Mem(w, addr)

\* the value w5100_read returns once the polls are done
ReadValue(w, addr) ==
    LET socknum == (addr - W5100_S0_BASE) \div 256
        offset == (addr - W5100_S0_BASE) % 256
        base == get_socket_base(socknum)
        isSock == addr >= W5100_S0_BASE /\ addr < W5100_TX_BASE /\ socknum < 4
    IN IF isSock /\ (offset = Sn_TX_FSR \/ offset = Sn_TX_FSR + 1)
       THEN LET tx_rd == MemWord(w, base + Sn_TX_RD)
                tx_wr == MemWord(w, base + Sn_TX_WR)
                fsr == Word16(SOCK_BUF_SIZE - And(tx_wr - tx_rd, SOCK_BUF_SIZE - 1))
            IN IF offset = Sn_TX_FSR THEN HI(fsr) ELSE LO(fsr)
       ELSE IF isSock /\ (offset = Sn_RX_RSR \/ offset = Sn_RX_RSR + 1)
       THEN LET ss == w.u2.sockets[socknum]
                rsr == Word16(And(ss.rx_tail - ss.rx_head, 4095))
            IN IF offset = Sn_RX_RSR THEN HI(rsr) ELSE LO(rsr)
       ELSE IF addr >= W5100_RX_BASE /\ addr < W5100_RX_BASE + W5100_RX_SIZE
       THEN LET sn == (addr - W5100_RX_BASE) \div SOCK_BUF_SIZE
                buf_offset == Word16(And(addr - get_rx_base(sn), SOCK_BUF_SIZE - 1))
            IN RxByte(w.u2.sockets[sn].rx_buf, buf_offset)
       ELSE Mem(w, addr)

\* the polls run for reads of the status register only
ReadPoll_StatusOnly(w, addr, o) ==
    LET socknum == (addr - W5100_S0_BASE) \div 256
    IN IF addr >= W5100_S0_BASE /\ addr < W5100_TX_BASE /\ socknum < 4
          /\ (addr - W5100_S0_BASE) % 256 = Sn_SR
       THEN LET w1 == socket_poll(w, socknum, o)
            IN IF w1.u2.sockets[socknum].macraw_mode
               THEN virtual_tcp_poll(w1, socknum, o)
               ELSE w1
       ELSE w

\* the polls w5100_read runs before it returns a socket register
ReadPoll(w, addr, o) ==
    LET socknum == (addr - W5100_S0_BASE) \div 256
    IN IF addr >= W5100_S0_BASE /\ addr < W5100_TX_BASE /\ socknum < 4
       THEN LET w1 == socket_poll(w, socknum, o)
            IN IF w1.u2.sockets[socknum].macraw_mode
               THEN virtual_tcp_poll(w1, socknum, o)
               ELSE w1
       ELSE w

\* w5100_read: the world after the call, and the byte returned
w5100_read(w, addr, o) ==
    IF addr >= MEM_SIZE THEN [w |-> w, val |-> 0]
    ELSE LET w1 == ReadPoll(w, addr, o)
         IN [w |-> w1, val |-> ReadValue(w1, addr)]

\* a guest byte stored into a TX ring: a frame image it lands on is no longer
\* the frame the guest laid down
TxStore(w, addr, val) ==
    LET sn == (addr - W5100_TX_BASE) \div SOCK_BUF_SIZE
        off == (addr - W5100_TX_BASE) % SOCK_BUF_SIZE
        hit == sn \in DOMAIN w.u2.tx_frame
               /\ ((off - w.u2.tx_frame[sn].at) % SOCK_BUF_SIZE) < w.u2.tx_frame[sn].frame.len
    IN Store(IF hit THEN [w EXCEPT !.u2.tx_frame = DropImage(@, sn)] ELSE w, addr, val)

w5100_write(w, addr, val, o) ==
    LET socknum == (addr - W5100_S0_BASE) \div 256
        offset == (addr - W5100_S0_BASE) % 256
    IN IF addr >= MEM_SIZE THEN w
       ELSE IF addr = W5100_MR
       THEN IF And(val, MR_RST) # 0 THEN w5100_reset(w) ELSE Store(w, addr, val)
       ELSE IF addr >= W5100_S0_BASE /\ addr < W5100_TX_BASE
               /\ socknum < 4 /\ offset = Sn_CR
       THEN socket_command(w, socknum, val, o)
       ELSE IF addr >= W5100_TX_BASE /\ addr < W5100_TX_BASE + W5100_TX_SIZE
       THEN TxStore(w, addr, val)
       ELSE Store(w, addr, val)

(***************************************************************************)
(* The slot handler                                                        *)
(***************************************************************************)
\* the ROM-area branch (psw == -1)
RomByte(ploc) ==
    IF ploc = 5 THEN 56
    ELSE IF ploc = 7 THEN 24
    ELSE 0

\* the increment without the wrap of the 16-bit word at 0x10000
AutoIncrement_NoWrap(w) ==
    IF And(w.u2.mode, MR_AI) # 0
    THEN [w EXCEPT !.u2.addr_ptr = @ + 1]
    ELSE w

\* "Auto-increment if enabled": u2.addr_ptr++ on a 16-bit word
AutoIncrement(w) ==
    IF And(w.u2.mode, MR_AI) # 0
    THEN [w EXCEPT !.u2.addr_ptr = Word16(@ + 1)]
    ELSE w

\* case SW_MODE_REG of handler: val = -1 is a read
SwitchMode(w, val) ==
    IF val = -1 THEN [w |-> w, val |-> w.u2.mode]
    ELSE IF And(val, 128) # 0
    THEN [w |-> [w5100_reset(w) EXCEPT !.u2.mode = And(val, 127)], val |-> 0]
    ELSE [w |-> [w EXCEPT !.u2.mode = Byte8(val)], val |-> 0]

\* case SW_ADDR_HI of handler
SwitchAddrHi(w, val) ==
    IF val = -1 THEN [w |-> w, val |-> HI(w.u2.addr_ptr)]
    ELSE [w |-> [w EXCEPT !.u2.addr_ptr = WORD(LO(w.u2.addr_ptr), val)], val |-> 0]

\* case SW_ADDR_LO of handler
SwitchAddrLo(w, val) ==
    IF val = -1 THEN [w |-> w, val |-> LO(w.u2.addr_ptr)]
    ELSE [w |-> [w EXCEPT !.u2.addr_ptr = WORD(val, HI(w.u2.addr_ptr))], val |-> 0]

\* case SW_DATA_REG of handler
SwitchData(w, val, o) ==
    LET r == IF val = -1
             THEN w5100_read(w, w.u2.addr_ptr, o)
             ELSE [w |-> w5100_write(w, w.u2.addr_ptr, Byte8(val), o), val |-> 0]
    IN [w |-> AutoIncrement(r.w), val |-> r.val]

\* handler(loc, val, ploc, psw): val = -1 is a read.  The world after the
\* call and the byte returned.
handler(w, val, ploc, psw, o) ==
    IF psw = -1 THEN [w |-> w, val |-> IF ploc >= 0 THEN RomByte(ploc) ELSE 0]
    ELSE IF psw = SW_MODE_REG THEN SwitchMode(w, val)
    ELSE IF psw = SW_ADDR_HI THEN SwitchAddrHi(w, val)
    ELSE IF psw = SW_ADDR_LO THEN SwitchAddrLo(w, val)
    ELSE IF psw = SW_DATA_REG THEN SwitchData(w, val, o)
    ELSE [w |-> w, val |-> 0]

(***************************************************************************)
(* State                                                                   *)
(***************************************************************************)
World == [u2 |-> u2, virtual_tcp |-> virtual_tcp, host |-> host]

\* the zero-initialised static `u2`, before init() runs
ZeroU2 ==
    [memory |-> <<>>,
     tx_frame |-> NoImages,
     addr_ptr |-> 0,
     mode |-> 0,
     sockets |-> [i \in Sockets |-> [ClosedSocket EXCEPT !.fd = 0]],
     initialized |-> FALSE,
     dhcp_state |-> "DHCP_IDLE",
     dhcp_xid |-> ZERO_IP,
     client_mac |-> ZERO_MAC,
     oob |-> FALSE]

\* the static `virtual_tcp = { .fd = -1 }`
ZeroVirtualTcp ==
    [fd |-> -1, remote_mac |-> ZERO_MAC, remote_ip |-> ZERO_IP, local_ip |-> ZERO_IP,
     remote_port |-> 0, local_port |-> 0, our_seq |-> ZERO_SEQ, their_seq |-> ZERO_SEQ,
     established |-> FALSE, fin_sent |-> FALSE, fin_received |-> FALSE]

\* the host side: the descriptors the card holds open, the destination of the
\* last connect(), the last send() (descriptor and return value) and the
\* bytes the SEND command handed to its last send()
ZeroHost ==
    [open |-> {}, target |-> [ip |-> ZERO_IP, port |-> 0], sent |-> [fd |-> -1, n |-> 0],
     sendbuf |-> <<>>]

\* init(): w5100_reset() on the zero-initialised statics
InitWorld == w5100_reset([u2 |-> ZeroU2, virtual_tcp |-> ZeroVirtualTcp, host |-> ZeroHost])

\* the last guest access: what it was, the register address it went to (the
\* address pointer before the access), the value written (-1: a read), and
\* the number of soft-switch accesses so far (counted by the soft-switch
\* specification only)
NoHistory == [common |-> FALSE, open |-> FALSE, vtcp |-> FALSE, rsr |-> 0]

NoAccess ==
    [op |-> "init", addr |-> 0, val |-> -1, step |-> 0, inj |-> 0, was |-> NoHistory]

Init ==
    /\ u2 = InitWorld.u2
    /\ virtual_tcp = InitWorld.virtual_tcp
    /\ host = InitWorld.host
    /\ result = 0
    /\ last = NoAccess

(***************************************************************************)
(* What the host answers                                                   *)
(***************************************************************************)
\* the host has nothing to report and every call succeeds
Quiet ==
    [sock |-> TRUE, conn |-> "ok", bind |-> TRUE, listen |-> TRUE,
     pollout |-> FALSE, soerr |-> 0, pollin |-> FALSE, got |-> -1, accept |-> FALSE,
     sent |-> -1,
     vsock |-> TRUE, vconn |-> "ok", vsoerr |-> 0, drain |-> <<>>,
     vpoll |-> FALSE, vgot |-> -1, oob_head |-> 0]

\* socket() succeeds or fails
SocketOracles == {[Quiet EXCEPT !.sock = b] : b \in BOOLEAN}

(***************************************************************************)
(* Actions: one call of handler()                                          *)
(***************************************************************************)
\* What the card was like just before the access being recorded: whether a
\* common register differed from its reset value, whether any socket adapter
\* was in use, whether the virtual TCP connection held a host socket, and
\* the received size of socket 0, (rx_tail - rx_head) & 0x0FFF.
CommonPage(m) == [a \in {x \in DOMAIN m : x < W5100_S0_BASE} |-> m[a]]

ResetCommon == CommonPage(ResetMemory)

Before ==
    [common |-> CommonPage(u2.memory) # ResetCommon,
     open   |-> \E s \in Sockets : u2.sockets[s] # ClosedSocket,
     vtcp   |-> virtual_tcp.fd >= 0,
     rsr    |-> And(u2.sockets[0].rx_tail - u2.sockets[0].rx_head, 4095)]

\* inj: the bytes the access injected into socket 0's RX buffer (0 outside
\* the MAC-raw specification)
Access(op, addr, val, step) ==
    [op |-> op, addr |-> addr, val |-> val, step |-> step, inj |-> 0, was |-> Before]

\* the world and the returned byte of a call become the next state
Becomes(r, l) ==
    /\ ~u2.oob
    /\ u2' = r.w.u2
    /\ virtual_tcp' = r.w.virtual_tcp
    /\ host' = r.w.host
    /\ result' = r.val
    /\ last' = l

\* one soft-switch access, counted
Switch(op, val, psw, o) ==
    /\ last.step < MaxSteps
    /\ Becomes(handler(World, val, -1, psw, o),
               Access(op, u2.addr_ptr, val, last.step + 1))

ModeVals == {0, 2, 128, 130}
AddrHiVals == {0, 4, 255}
AddrLoVals == {0, 1, 255}
DataVals == {1, 128}

SwModeRead == Switch("mode_read", -1, SW_MODE_REG, Quiet)

SwModeWrite == \E v \in ModeVals : Switch("mode_write", v, SW_MODE_REG, Quiet)

SwAddrRead == \E psw \in {SW_ADDR_HI, SW_ADDR_LO} : Switch("addr_read", -1, psw, Quiet)

SwAddrHiWrite == \E v \in AddrHiVals : Switch("addr_hi", v, SW_ADDR_HI, Quiet)

SwAddrLoWrite == \E v \in AddrLoVals : Switch("addr_lo", v, SW_ADDR_LO, Quiet)

SwDataRead == Switch("data_read", -1, SW_DATA_REG, Quiet)

SwDataWrite == \E v \in DataVals, o \in SocketOracles : Switch("data_write", v, SW_DATA_REG, o)

\* a read in the slot-ROM area
RomRead ==
    \E ploc \in {0, 5, 7} :
        /\ last.step < MaxSteps
        /\ Becomes(handler(World, -1, ploc, -1, Quiet),
                   Access("rom_read", ploc, -1, last.step + 1))

Next ==
    \/ SwModeRead
    \/ SwModeWrite
    \/ SwAddrRead
    \/ SwAddrHiWrite
    \/ SwAddrLoWrite
    \/ SwDataRead
    \/ SwDataWrite
    \/ RomRead

Spec == Init /\ [][Next]_vars

(***************************************************************************)
(* The guest driver's register accesses: address high, address low, then   *)
(* the byte through the data switch -- three calls of handler()            *)
(***************************************************************************)
\* handler() on SW_ADDR_HI and then on SW_ADDR_LO
GuestSetAddr(w, addr) ==
    SwitchAddrLo(SwitchAddrHi(w, HI(addr)).w, LO(addr)).w

GuestWrite(w, addr, val, o) == SwitchData(GuestSetAddr(w, addr), val, o)

GuestRead(w, addr, o) == SwitchData(GuestSetAddr(w, addr), -1, o)

RegWrite(addr, val, o) ==
    Becomes(GuestWrite(World, addr, val, o),
            Access("reg_write", addr, val, 0))

RegRead(addr, o) ==
    Becomes(GuestRead(World, addr, o),
            Access("reg_read", addr, -1, 0))

\* a write to the mode soft switch
ModeWrite(val) ==
    Becomes(SwitchMode(World, val),
            Access("mode_write", 0, val, 0))

\* the non-zero bytes of socket s's 256-byte register page
SocketPage(m, s) ==
    [a \in {x \in DOMAIN m : get_socket_base(s) <= x /\ x < get_socket_base(s) + 256}
        |-> m[a]]

\* the register pages as w5100_reset leaves them
ResetPages == [s \in Sockets |-> SocketPage(ResetMemory, s)]

\* socket s is as w5100_reset leaves it: adapter, register page, TX ring
Pristine(s) ==
    /\ u2.sockets[s] = ClosedSocket
    /\ s \notin DOMAIN u2.tx_frame
    /\ SocketPage(u2.memory, s) = ResetPages[s]

\* the guest drives socket s alone: the other sockets are untouched since
\* the last reset
Alone(s) == \A t \in Sockets \ {s} : Pristine(t)

(***************************************************************************)
(* TX pointer specification: the guest writes the TX pointer registers of  *)
(* a socket byte by byte, opens it as TCP or MAC-raw, connects and sends   *)
(***************************************************************************)
TxSockets == {0, 3}
TxPtrOffsets == {Sn_TX_RD, Sn_TX_RD + 1, Sn_TX_WR, Sn_TX_WR + 1, Sn_TX_FSR + 1}
TxPtrVals == {255}
\* what send() accepts: an error, or everything
TxOracles == {[Quiet EXCEPT !.sent = n] : n \in {-1, SOCK_BUF_SIZE}}

\* socket 0 is the MAC-raw socket; socket 3 stands for the TCP sockets
TxWriteMode ==
    \E s \in TxSockets :
        /\ Alone(s)
        /\ RegWrite(get_socket_base(s) + Sn_MR,
                    IF s = 0 THEN Sn_MR_MACRAW ELSE Sn_MR_TCP, Quiet)

\* OPEN on a closed socket, CONNECT, SEND
TxCommand ==
    \E s \in TxSockets :
        /\ Alone(s)
        /\ \E cmd \in {Sn_CR_OPEN, Sn_CR_CONNECT, Sn_CR_SEND}, o \in TxOracles :
              /\ cmd = Sn_CR_OPEN => Mem(World, get_socket_base(s) + Sn_SR) = Sn_SR_CLOSED
              /\ RegWrite(get_socket_base(s) + Sn_CR, cmd, o)

TxWritePointer ==
    \E s \in TxSockets :
        /\ Alone(s)
        /\ \E off \in TxPtrOffsets, v \in TxPtrVals :
              RegWrite(get_socket_base(s) + off, v, Quiet)

TxReadFreeSize ==
    \E s \in TxSockets :
        /\ Alone(s)
        /\ \E off \in {Sn_TX_FSR, Sn_TX_FSR + 1} :
              RegRead(get_socket_base(s) + off, Quiet)

TxReset == ModeWrite(MR_RST)

NextTx ==
    \/ TxWriteMode
    \/ TxCommand
    \/ TxWritePointer
    \/ TxReadFreeSize
    \/ TxReset

SpecTx == Init /\ [][NextTx]_vars

\* 2048 - ((TX_WR - TX_RD) mod 2048), from the pointers stored in the page
FreeSize(s) ==
    LET base == get_socket_base(s)
    IN SOCK_BUF_SIZE
         - ((MemWord(World, base + Sn_TX_WR) - MemWord(World, base + Sn_TX_RD))
              % SOCK_BUF_SIZE)

\* C1: for every socket, a read of Sn_TX_FSR through the data switch returns
\* the high byte, and a read of Sn_TX_FSR + 1 the low byte, of
\* 2048 - ((TX_WR - TX_RD) mod 2048) computed from the stored pointers,
\* whatever the guest wrote to Sn_TX_RD, Sn_TX_WR and Sn_TX_FSR.
C1_FreeSizeFromPointers ==
    \A s \in Sockets :
        /\ (last.op = "reg_read" /\ last.addr = get_socket_base(s) + Sn_TX_FSR)
              => result = FreeSize(s) \div 256
        /\ (last.op = "reg_read" /\ last.addr = get_socket_base(s) + Sn_TX_FSR + 1)
              => result = FreeSize(s) % 256

\* the low byte of Sn_TX_FSR was read on socket 3 with TX_WR below TX_RD and
\* a guest-written byte stored in the register itself
C1_ReadBehindPointer ==
    LET base == get_socket_base(3)
    IN /\ last.op = "reg_read"
       /\ last.addr = base + Sn_TX_FSR + 1
       /\ MemWord(World, base + Sn_TX_WR) < MemWord(World, base + Sn_TX_RD)
       /\ Mem(World, base + Sn_TX_FSR + 1) = 255
       /\ result # 255

(***************************************************************************)
(* Common registers across a reset (register-level specification)          *)
(***************************************************************************)
\* one byte of each common register the guest overwrites, and the bytes it
\* reads back
CommonWritten ==
    {W5100_RTR, W5100_RCR, W5100_RMSR, W5100_TMSR, W5100_PPTLR, W5100_SHAR,
     W5100_IR, W5100_IMR}

CommonRead ==
    CommonWritten \cup {W5100_RTR + 1} \cup {W5100_SHAR + i : i \in 1..5}

CommonVals == {170}

ResetVals == {MR_RST, MR_RST + MR_AI}

CommonGuestWrite == \E a \in CommonWritten, v \in CommonVals : RegWrite(a, v, Quiet)

CommonGuestRead == \E a \in CommonRead : RegRead(a, Quiet)

CommonReset == \E v \in ResetVals : ModeWrite(v)

NextCommon ==
    \/ CommonGuestWrite
    \/ CommonGuestRead
    \/ CommonReset

SpecCommon == Init /\ [][NextCommon]_vars

\* the defaults the W5100 documents for the common registers
DocumentedDefault ==
    (W5100_RTR :> 7) @@ (W5100_RTR + 1 :> 208)
    @@ (W5100_RCR :> 8) @@ (W5100_RMSR :> 85) @@ (W5100_TMSR :> 85)
    @@ (W5100_PPTLR :> 0)
    @@ (W5100_SHAR :> 2) @@ (W5100_SHAR + 1 :> 0) @@ (W5100_SHAR + 2 :> 222)
    @@ (W5100_SHAR + 3 :> 173) @@ (W5100_SHAR + 4 :> 190) @@ (W5100_SHAR + 5 :> 239)
    @@ (W5100_IR :> 0) @@ (W5100_IMR :> 0)

\* the last access was a write of a value with bit 7 set to the mode switch
JustReset == last.op = "mode_write" /\ And(last.val, MR_RST) # 0

\* C3: after a write with bit 7 set to the mode soft switch, whatever the
\* guest had written to the common registers, the next access that reads a
\* common register returns its documented default: retry time 0x07D0, retry
\* count 8, RX and TX memory size 0x55, virtual-detect byte 0, source MAC
\* 02:00:DE:AD:BE:EF, interrupt and interrupt mask 0.
C3_DefaultsAfterReset ==
    [][(JustReset /\ last'.op = "reg_read")
          => result' = DocumentedDefault[last'.addr]]_vars

\* the mode switch was written with bit 7 set while a common register held
\* a guest-written value, and that register holds its default again
C3_ResetOverGuestValues ==
    /\ JustReset
    /\ last.was.common
    /\ CommonPage(u2.memory) = ResetCommon

(***************************************************************************)
(* Socket commands and polls (register-level specification)                *)
(***************************************************************************)
SockSockets == {0, 3}

\* the modes the guest gives each socket: TCP or MAC-raw on socket 0, UDP or
\* MAC-raw (which OPEN refuses there) on socket 3
SockModes == (0 :> {Sn_MR_TCP, Sn_MR_MACRAW}) @@ (3 :> {Sn_MR_UDP, Sn_MR_MACRAW})

SocketFails == [Quiet EXCEPT !.sock = FALSE]

BindFails == [Quiet EXCEPT !.bind = FALSE]

ConnectPends == [Quiet EXCEPT !.conn = "inprogress"]

ConnectFails == [Quiet EXCEPT !.conn = "fail"]

\* the seven commands and two bytes that are no command, each with what
\* socket(), bind() and connect() may answer to it
CmdCases ==
    {<<Sn_CR_OPEN, Quiet>>, <<Sn_CR_OPEN, SocketFails>>,
     <<Sn_CR_LISTEN, Quiet>>, <<Sn_CR_LISTEN, BindFails>>,
     <<Sn_CR_CONNECT, Quiet>>, <<Sn_CR_CONNECT, ConnectPends>>,
     <<Sn_CR_CONNECT, ConnectFails>>,
     <<Sn_CR_DISCON, Quiet>>, <<Sn_CR_CLOSE, Quiet>>,
     <<Sn_CR_SEND, Quiet>>, <<Sn_CR_RECV, Quiet>>,
     <<0, Quiet>>, <<255, Quiet>>}

\* what poll(), getsockopt(), recv() and accept() answer to a status read
PollOracles ==
    {[Quiet EXCEPT !.pollout = TRUE],
     [Quiet EXCEPT !.pollout = TRUE, !.soerr = 111],
     [Quiet EXCEPT !.pollin = TRUE, !.got = 2000],
     [Quiet EXCEPT !.pollin = TRUE, !.got = 0],
     [Quiet EXCEPT !.pollin = TRUE, !.accept = TRUE]}

SockWriteMode ==
    \E s \in SockSockets :
        /\ Alone(s)
        /\ \E m \in SockModes[s] : RegWrite(get_socket_base(s) + Sn_MR, m, Quiet)

SockCommand ==
    \E s \in SockSockets :
        /\ Alone(s)
        /\ \E c \in CmdCases : RegWrite(get_socket_base(s) + Sn_CR, c[1], c[2])

SockReadStatus ==
    \E s \in SockSockets :
        /\ Alone(s)
        /\ \E o \in PollOracles : RegRead(get_socket_base(s) + Sn_SR, o)

SockReadCommand ==
    \E s \in SockSockets :
        /\ Alone(s)
        /\ RegRead(get_socket_base(s) + Sn_CR, Quiet)

SockReset == \E v \in ResetVals : ModeWrite(v)

NextSock ==
    \/ SockWriteMode
    \/ SockCommand
    \/ SockReadStatus
    \/ SockReadCommand
    \/ SockReset

SpecSock == Init /\ [][NextSock]_vars

\* C5: after a write of a value with bit 7 set to the mode soft switch, from
\* any reachable state, every socket's status register reads CLOSED whatever
\* the host reports to the poll, and every adapter is cleared: no host socket
\* handle, connect-in-progress false, MAC-raw flag false, RX head and tail 0.
C5_ResetClearsSockets ==
    JustReset =>
        \A s \in Sockets :
            /\ \A o \in PollOracles :
                   w5100_read(World, get_socket_base(s) + Sn_SR, o).val = Sn_SR_CLOSED
            /\ u2.sockets[s].fd = -1
            /\ ~u2.sockets[s].connecting
            /\ ~u2.sockets[s].macraw_mode
            /\ u2.sockets[s].rx_head = 0
            /\ u2.sockets[s].rx_tail = 0

\* the mode switch was written with bit 7 set while a socket adapter was in
\* use, and the adapters are closed now
C5_ResetOverOpenSocket ==
    /\ JustReset
    /\ last.was.open
    /\ \A s \in Sockets : u2.sockets[s].fd = -1

\* the three conditions of a socket
HoldsHostSocket(s) == u2.sockets[s].fd >= 0

MacRawActive(s) == u2.sockets[s].macraw_mode

IsClosed(s) ==
    /\ Mem(World, get_socket_base(s) + Sn_SR) = Sn_SR_CLOSED
    /\ u2.sockets[s].fd < 0
    /\ ~u2.sockets[s].macraw_mode

\* C7: in every reachable state and for every socket exactly one of these
\* holds: the adapter holds an open host socket, the adapter's MAC-raw flag
\* is active, the socket is closed (status CLOSED, no host socket, MAC-raw
\* inactive).
C7_ExactlyOneCondition ==
    \A s \in Sockets :
        Cardinality({c \in {"host", "macraw", "closed"} :
                        \/ c = "host" /\ HoldsHostSocket(s)
                        \/ c = "macraw" /\ MacRawActive(s)
                        \/ c = "closed" /\ IsClosed(s)}) = 1

\* the last access was a write to a socket's command register
JustCommanded ==
    /\ last.op = "reg_write"
    /\ \E s \in Sockets : last.addr = get_socket_base(s) + Sn_CR

\* C8: for every socket and every byte written to its command register (a
\* defined command, an undefined value, a command whose precondition fails)
\* the next read of the command register returns 0.
C8_CommandReadsZero ==
    [][(JustCommanded /\ last'.op = "reg_read" /\ last'.addr = last.addr)
          => result' = 0]_vars

\* an undefined command byte was written to the command register of socket 3
\* and the register holds 0
C8_UndefinedCommandWritten ==
    /\ JustCommanded
    /\ last.addr = get_socket_base(3) + Sn_CR
    /\ last.val = 255
    /\ Mem(World, last.addr) = 0

(***************************************************************************)
(* MAC-raw traffic on socket 0 (register-level specification)              *)
(***************************************************************************)
\* the guest: the card's default MAC, the address DHCP hands out, a client
\* port and an initial sequence number of its choosing
GuestMac == <<2, 0, 222, 173, 190, 239>>

GuestSeq == <<0, 1000>>

GuestXid == <<1, 2, 3, 4>>

\* a DHCP message of the guest: 14 + 20 + 8 + 300 bytes
DhcpFrame(type) ==
    [NoFrame EXCEPT
        !.len = ETH_HEADER_LEN + IPH_HEADER_LEN + UDP_HEADER_LEN + DHCP_MIN_LEN,
        !.eth_dst = BROADCAST_MAC, !.eth_src = GuestMac, !.ethertype = 2048,
        !.ip_len = IPH_HEADER_LEN + UDP_HEADER_LEN + DHCP_MIN_LEN,
        !.ip_ttl = 64, !.ip_proto = 17, !.ip_src = ZERO_IP, !.ip_dst = BROADCAST_IP,
        !.sport = 68, !.dport = 67,
        !.dhcp_op = 1, !.dhcp_magic = TRUE, !.dhcp_type = type,
        !.dhcp_xid = GuestXid, !.dhcp_chaddr = GuestMac]

\* who-has 192.168.65.1
ArpRequest ==
    [NoFrame EXCEPT
        !.len = ETH_HEADER_LEN + 28,
        !.eth_dst = BROADCAST_MAC, !.eth_src = GuestMac, !.ethertype = 2054,
        !.arp_oper = 1, !.arp_sha = GuestMac, !.arp_spa = VIRTUAL_CLIENT_IP,
        !.arp_tpa = VIRTUAL_GATEWAY]

\* a TCP segment of the guest to 192.168.65.1:80
TcpFrame(flags, seq, data_len) ==
    [NoFrame EXCEPT
        !.len = ETH_HEADER_LEN + IPH_HEADER_LEN + TCP_HEADER_LEN + data_len,
        !.eth_dst = VIRTUAL_GATEWAY_MAC, !.eth_src = GuestMac, !.ethertype = 2048,
        !.ip_len = IPH_HEADER_LEN + TCP_HEADER_LEN + data_len,
        !.ip_ttl = 64, !.ip_proto = 6,
        !.ip_src = VIRTUAL_CLIENT_IP, !.ip_dst = VIRTUAL_GATEWAY,
        !.sport = 49152, !.dport = 80,
        !.tcp_seq = seq, !.tcp_ack = U32Add(INITIAL_SEQ, 1),
        !.tcp_hlen = TCP_HEADER_LEN, !.tcp_flags = flags, !.data_len = data_len]

SynFrame == TcpFrame(TCP_SYN, GuestSeq, 0)

AckFrame == TcpFrame(TCP_ACK_FLAG, U32Add(GuestSeq, 1), 0)

DataFrame == TcpFrame(TCP_ACK_FLAG + TCP_PSH, U32Add(GuestSeq, 1), 10)

\* what lands in rx_head when a frame is written past the end of rx_buf
OobHeads == {0, 513}

\* the host answers the guest's data with MaxDrain full buffers
HostAnswers ==
    {[Quiet EXCEPT !.drain = [i \in 1..MaxDrain |-> SizeofRecvBuf], !.oob_head = h] :
        h \in OobHeads}

\* the frames the guest sends, each with what the host may answer
SendCases ==
    {<<DhcpFrame(DHCP_DISCOVER), Quiet>>,
     <<ArpRequest, Quiet>>,
     <<SynFrame, Quiet>>,
     <<AckFrame, Quiet>>}
    \cup {<<DataFrame, o>> : o \in HostAnswers}

\* what the host reports when a socket register is read: a full buffer of
\* data
MacPollOracles ==
    {[Quiet EXCEPT !.vpoll = TRUE, !.vgot = SizeofRecvBuf, !.oob_head = h] : h \in OobHeads}

\* the guest's writes that lay a frame down at the start of socket 0's TX
\* ring and set Sn_TX_RD and Sn_TX_WR around it
StageFrame(w, f) ==
    LET base == get_socket_base(0)
        tx_base == get_tx_base(0)
        w1 == StoreWord(w, base + Sn_TX_RD, tx_base)
        w2 == StoreWord(w1, base + Sn_TX_WR, tx_base + f.len)
    IN [w2 EXCEPT !.u2.tx_frame = PutImage(@, 0, [at |-> 0, frame |-> f])]

\* the guest stages a frame and writes SEND to the command register
GuestSend(w, f, o) ==
    GuestWrite(StageFrame(w, f), get_socket_base(0) + Sn_CR, Sn_CR_SEND, o)

\* the guest advances Sn_RX_RD by n and writes RECV to the command register
GuestRecv(w, n) ==
    LET base == get_socket_base(0)
        w1 == StoreWord(w, base + Sn_RX_RD, Word16(MemWord(w, base + Sn_RX_RD) + n))
    IN GuestWrite(w1, base + Sn_CR, Sn_CR_RECV, Quiet)

\* socket 0 with nothing in its RX buffer
EmptyRx(w) ==
    [w EXCEPT !.u2.sockets[0].rx_buf = {},
              !.u2.sockets[0].rx_head = 0,
              !.u2.sockets[0].rx_tail = 0]

\* the bytes an access injects: the tail it leaves in an empty RX buffer
Injected(r) == r.w.u2.sockets[0].rx_tail

\* the frames between rx_head and rx_tail, which the guest has yet to consume
Pending(ss) == {e \in ss.rx_buf : ss.rx_head <= e.at /\ e.at + e.prefix <= ss.rx_tail}

\* (rx_tail - rx_head) & 0x0FFF, the value Sn_RX_RSR reads
Rsr(w) == And(w.u2.sockets[0].rx_tail - w.u2.sockets[0].rx_head, 4095)

\* the guest keeps fewer than MaxFrames frames waiting, and the host sends
\* fewer than MaxSeqGrowth bytes on a connection before it pauses
FewPending == Cardinality(Pending(u2.sockets[0])) < MaxFrames

HostMaySend == virtual_tcp.our_seq[2] - INITIAL_SEQ[2] < MaxSeqGrowth

MacWriteMode == RegWrite(get_socket_base(0) + Sn_MR, Sn_MR_MACRAW, Quiet)

MacOpen ==
    /\ Mem(World, get_socket_base(0) + Sn_SR) = Sn_SR_CLOSED
    /\ RegWrite(get_socket_base(0) + Sn_CR, Sn_CR_OPEN, Quiet)

\* the guest asks for a lease once, resolves the gateway before its
\* connection is established, opens one connection, acknowledges the SYN-ACK
\* once and sends data on the established connection only
InTurn(f) ==
    /\ f.dhcp_type > 0 => u2.dhcp_state = "DHCP_IDLE"
    /\ f = ArpRequest => ~virtual_tcp.established
    /\ f = SynFrame => virtual_tcp.fd < 0
    /\ f = AckFrame => virtual_tcp.fd >= 0 /\ ~virtual_tcp.established
    /\ f = DataFrame => virtual_tcp.fd >= 0 /\ virtual_tcp.established

MacSend ==
    /\ FewPending
    /\ \E c \in SendCases :
          /\ InTurn(c[1])
          /\ c[2].drain # <<>> => HostMaySend
          /\ Becomes(GuestSend(World, c[1], c[2]),
                     [Access("send", get_socket_base(0) + Sn_CR, Sn_CR_SEND, 0)
                        EXCEPT !.inj = Injected(GuestSend(EmptyRx(World), c[1], c[2]))])

MacPoll ==
    /\ \E o \in MacPollOracles :
          /\ o.vgot > 0 => HostMaySend
          /\ Becomes(GuestRead(World, get_socket_base(0) + Sn_RX_RSR + 1, o),
                     [Access("reg_read", get_socket_base(0) + Sn_RX_RSR + 1, -1, 0)
                        EXCEPT !.inj = Injected(GuestRead(EmptyRx(World),
                                                          get_socket_base(0) + Sn_RX_RSR + 1, o))])

MacRecv ==
    \E n \in {last.inj, Rsr(World)} \ {0} :
        Becomes(GuestRecv(World, n), Access("recv", get_socket_base(0) + Sn_CR, n, 0))

MacReset == ModeWrite(MR_RST)

NextMacraw ==
    \/ MacWriteMode
    \/ MacOpen
    \/ MacSend
    \/ MacPoll
    \/ MacRecv
    \/ MacReset

SpecMacraw == Init /\ [][NextMacraw]_vars

\* C2: for every injection of a frame (DHCP reply, ARP reply or TCP segment)
\* into socket 0's RX buffer in a MAC-raw state, followed by a guest RECV
\* whose Sn_RX_RD was advanced by exactly the injected length, Sn_RX_RSR
\* reads the value it read immediately before the injection.
C2_RecvRestoresReceivedSize ==
    (last.inj > 0 /\ u2.sockets[0].macraw_mode /\ ~u2.oob)
        => Rsr(GuestRecv(World, last.inj).w) = last.was.rsr

\* C6: a reset through the mode switch performed while a translated TCP
\* connection is open closes the virtual TCP endpoint's host socket: after
\* it the endpoint holds no open host socket and is not established.
C6_ResetClosesVirtualTcp ==
    (JustReset /\ last.was.vtcp)
        => /\ virtual_tcp.fd < 0
           /\ ~virtual_tcp.established
           /\ host.open = {}

\* C9: every injected frame (DHCP OFFER/ACK, ARP reply, TCP segment) is
\* appended at the current RX tail: a frame lies at the old tail afterwards,
\* and the frames injected earlier that the guest has not consumed remain in
\* the RX buffer, unmodified and in place.
C9_InjectedFramesAppended ==
    [][last'.inj > 0
         => /\ \E e \in u2'.sockets[0].rx_buf : e.at = u2.sockets[0].rx_tail
            /\ \A e \in Pending(u2.sockets[0]) : e \in Pending(u2'.sockets[0])]_vars

\* C10: an injection that would take the tail past the capacity of the
\* staging buffer is skipped, leaving RX head, tail and contents unchanged,
\* and in every reachable state the tail is within the capacity.
C10_OverflowingInjectionSkipped ==
    [][/\ (last'.inj > 0 /\ u2.sockets[0].rx_tail + last'.inj > RX_BUF_SIZE)
           => u2'.sockets[0] = u2.sockets[0]
       /\ u2'.sockets[0].rx_tail <= RX_BUF_SIZE]_vars

(***************************************************************************)
(* The virtual DHCP server and ARP responder behind socket 0: the guest    *)
(* opens the socket in MAC-raw mode and sends DHCP messages and ARP frames *)
(***************************************************************************)
OtherXid == <<9, 8, 7, 6>>

\* DHCPDECLINE and DHCPRELEASE, two message types the server has no answer to
OtherDhcpTypes == {4, 7}

LanXids == {GuestXid, OtherXid}

\* a DHCP message of the guest with a transaction ID of its choice
DhcpFrom(type, xid) == [DhcpFrame(type) EXCEPT !.dhcp_xid = xid]

\* who-has 192.168.65.100, the guest's own address
ArpForClient == [ArpRequest EXCEPT !.arp_tpa = VIRTUAL_CLIENT_IP]

\* an ARP reply (operation 2) addressed to the gateway
ArpReplyFrame == [ArpRequest EXCEPT !.arp_oper = 2]

ArpFrames == {ArpRequest, ArpForClient, ArpReplyFrame}

LanFrames ==
    {DhcpFrom(t, x) : t \in {DHCP_DISCOVER, DHCP_REQUEST} \cup OtherDhcpTypes, x \in LanXids}
    \cup ArpFrames

\* socket 0 is open in MAC-raw mode
MacrawOpen(w) ==
    Mem(w, get_socket_base(0) + Sn_SR) = Sn_SR_MACRAW /\ w.u2.sockets[0].macraw_mode

\* the frames a call leaves in an RX buffer that was empty
Arrived(r) == r.w.u2.sockets[0].rx_buf

\* a SEND, with the frame sent, the frames it injected and the DHCP server's
\* state before it
SendAccess(f, o) ==
    [frame |-> f,
     got |-> Arrived(GuestSend(EmptyRx(World), f, o)),
     ready |-> MacrawOpen(World),
     dhcp |-> [state |-> u2.dhcp_state, xid |-> u2.dhcp_xid, mac |-> u2.client_mac]]
    @@ Access("send", get_socket_base(0) + Sn_CR, Sn_CR_SEND, 0)

LanWriteMode == RegWrite(get_socket_base(0) + Sn_MR, Sn_MR_MACRAW, Quiet)

LanOpen ==
    /\ Mem(World, get_socket_base(0) + Sn_SR) = Sn_SR_CLOSED
    /\ RegWrite(get_socket_base(0) + Sn_CR, Sn_CR_OPEN, Quiet)

LanSend ==
    \E f \in LanFrames : Becomes(GuestSend(World, f, Quiet), SendAccess(f, Quiet))

\* the guest consumes everything that waits in the RX buffer
LanRecv ==
    /\ Rsr(World) > 0
    /\ Becomes(GuestRecv(World, Rsr(World)),
               Access("recv", get_socket_base(0) + Sn_CR, Rsr(World), 0))

LanReset == ModeWrite(MR_RST)

NextLan ==
    \/ LanWriteMode
    \/ LanOpen
    \/ LanSend
    \/ LanRecv
    \/ LanReset

SpecLan == Init /\ [][NextLan]_vars

\* a SEND of a DHCP message of the given type on the open MAC-raw socket
DhcpSendStep(type) ==
    /\ last'.op = "send"
    /\ last'.ready
    /\ detect_dhcp_type(last'.frame, last'.frame.len) = type

\* C11: with socket 0 open in MAC-raw mode, a SEND of a DHCPDISCOVER injects
\* exactly one frame, an OFFER with the DISCOVER's transaction ID and client
\* MAC, and leaves the DHCP state OFFER_SENT; a SEND of a DHCPREQUEST that
\* follows injects one more frame, an ACK whose IP destination is
\* 192.168.65.100, leaves the state COMPLETE and sets SIPR = 192.168.65.100,
\* GAR = 192.168.65.1 and SUBR = 255.255.255.0.
C11_DiscoverThenRequest ==
    [][/\ DhcpSendStep(DHCP_DISCOVER) =>
            /\ \E e \in last'.got :
                  /\ last'.got = {e}
                  /\ e.frame.dhcp_type = DHCP_OFFER
                  /\ e.frame.dhcp_xid = last'.frame.dhcp_xid
                  /\ e.frame.dhcp_chaddr = last'.frame.dhcp_chaddr
            /\ last'.got \subseteq Pending(u2'.sockets[0])
            /\ u2'.dhcp_state = "DHCP_OFFER_SENT"
       /\ (DhcpSendStep(DHCP_REQUEST) /\ u2.dhcp_state = "DHCP_OFFER_SENT") =>
            /\ \E e \in last'.got :
                  /\ last'.got = {e}
                  /\ e.frame.dhcp_type = DHCP_ACK
                  /\ e.frame.ip_dst = <<192, 168, 65, 100>>
            /\ last'.got \subseteq Pending(u2'.sockets[0])
            /\ u2'.dhcp_state = "DHCP_COMPLETE"
            /\ [i \in 0..3 |-> MemGet(u2'.memory, W5100_SIPR + i)]
                 = [i \in 0..3 |-> <<192, 168, 65, 100>>[i + 1]]
            /\ [i \in 0..3 |-> MemGet(u2'.memory, W5100_GAR + i)]
                 = [i \in 0..3 |-> <<192, 168, 65, 1>>[i + 1]]
            /\ [i \in 0..3 |-> MemGet(u2'.memory, W5100_SUBR + i)]
                 = [i \in 0..3 |-> <<255, 255, 255, 0>>[i + 1]]
      ]_vars

\* a DHCPREQUEST was answered after an OFFER had been sent
C11_LeaseAcknowledged ==
    /\ last.op = "send"
    /\ last.ready
    /\ last.frame.dhcp_type = DHCP_REQUEST
    /\ last.dhcp.state = "DHCP_OFFER_SENT"
    /\ u2.dhcp_state = "DHCP_COMPLETE"
    /\ \E e \in Pending(u2.sockets[0]) : e.frame.dhcp_type = DHCP_ACK

ArpSendStep ==
    /\ last'.op = "send"
    /\ last'.ready
    /\ last'.frame.ethertype = 2054

\* C13: a MAC-raw SEND of an ARP frame that is not a request or whose target
\* protocol address is not 192.168.65.1 injects nothing and leaves Sn_RX_RSR,
\* the RX head and tail and the RX buffer contents unchanged; an ARP request
\* for 192.168.65.1 injects exactly one reply, whose leading length word is 44.
C13_OnlyGatewayRequestsAnswered ==
    [][ArpSendStep =>
          IF last'.frame.arp_oper = 1 /\ last'.frame.arp_tpa = <<192, 168, 65, 1>>
          THEN /\ \E e \in last'.got :
                     /\ last'.got = {e}
                     /\ e.prefix = 44
                     /\ e.frame.ethertype = 2054
                     /\ e.frame.arp_oper = 2
               /\ last'.got \subseteq Pending(u2'.sockets[0])
          ELSE /\ last'.got = {}
               /\ Rsr(World)' = Rsr(World)
               /\ u2'.sockets[0].rx_head = u2.sockets[0].rx_head
               /\ u2'.sockets[0].rx_tail = u2.sockets[0].rx_tail
               /\ u2'.sockets[0].rx_buf = u2.sockets[0].rx_buf
      ]_vars

\* an ARP frame that is no request for the gateway was sent while a reply
\* waited in the RX buffer, and the reply still waits
C13_UnansweredArpOverPending ==
    /\ last.op = "send"
    /\ last.ready
    /\ last.frame \in {ArpForClient, ArpReplyFrame}
    /\ \E e \in Pending(u2.sockets[0]) : e.prefix = 44 /\ e.frame.arp_oper = 2

(***************************************************************************)
(* The TCP translation behind socket 0: the guest opens a connection to    *)
(* the gateway, sends data, closes, and opens again                        *)
(***************************************************************************)
\* a SYN whose sequence number is 2^32 - 1
SynWrap == TcpFrame(TCP_SYN, <<65535, 65535>>, 0)

\* the guest's second data segment, which follows DataFrame
DataNext == TcpFrame(TCP_ACK_FLAG + TCP_PSH, U32Add(GuestSeq, 11), 10)

FinFrame == TcpFrame(TCP_FIN + TCP_ACK_FLAG, U32Add(GuestSeq, 21), 0)

\* socket() fails; connect() succeeds at once, is in progress, fails; SO_ERROR
\* is ECONNREFUSED after the wait
ConnectAnswers ==
    {Quiet,
     [Quiet EXCEPT !.vconn = "inprogress"],
     [Quiet EXCEPT !.vsock = FALSE],
     [Quiet EXCEPT !.vconn = "fail"],
     [Quiet EXCEPT !.vconn = "inprogress", !.vsoerr = 111]}

\* the host has nothing to say, has more than one buffer of data, or has
\* closed the connection
DataAnswers ==
    {Quiet, [Quiet EXCEPT !.drain = <<2000>>], [Quiet EXCEPT !.drain = <<0>>]}

TcpCases ==
    {<<SynFrame, o>> : o \in ConnectAnswers}
    \cup {<<SynWrap, Quiet>>, <<AckFrame, Quiet>>, <<FinFrame, Quiet>>}
    \cup {<<f, o>> : f \in {DataFrame, DataNext}, o \in DataAnswers}

\* the host connection of a SYN opens
ConnectSucceeds(o) == o.vsock /\ o.vconn # "fail" /\ o.vsoerr = 0

\* a SEND, with the frame sent, what the host answered and the frames the
\* SEND injected
TcpAccess(f, o) ==
    [frame |-> f,
     o |-> o,
     got |-> Arrived(GuestSend(EmptyRx(World), f, o)),
     ready |-> MacrawOpen(World)]
    @@ Access("send", get_socket_base(0) + Sn_CR, Sn_CR_SEND, 0)

TcpWriteMode == RegWrite(get_socket_base(0) + Sn_MR, Sn_MR_MACRAW, Quiet)

TcpOpen ==
    /\ Mem(World, get_socket_base(0) + Sn_SR) = Sn_SR_CLOSED
    /\ RegWrite(get_socket_base(0) + Sn_CR, Sn_CR_OPEN, Quiet)

\* the guest closes a connection that is open, and the host reports the end
\* of its data once
TcpInTurn(f, o) ==
    /\ f = FinFrame => virtual_tcp.fd >= 0
    /\ o.drain = <<0>> => ~virtual_tcp.fin_sent

\* the guest reads what waits in the RX buffer before it sends its next frame
TcpSend ==
    /\ Rsr(World) = 0
    /\ \E c \in TcpCases :
          /\ TcpInTurn(c[1], c[2])
          /\ c[2].drain # <<>> => HostMaySend
          /\ Becomes(GuestSend(World, c[1], c[2]), TcpAccess(c[1], c[2]))

\* the guest consumes everything that waits in the RX buffer
TcpRecv ==
    /\ Rsr(World) > 0
    /\ Becomes(GuestRecv(World, Rsr(World)),
               Access("recv", get_socket_base(0) + Sn_CR, Rsr(World), 0))

TcpReset == ModeWrite(MR_RST)

NextTcp ==
    \/ TcpWriteMode
    \/ TcpOpen
    \/ TcpSend
    \/ TcpRecv
    \/ TcpReset

SpecTcp == Init /\ [][NextTcp]_vars

\* a SEND, on the open MAC-raw socket, of a TCP segment to 192.168.64.x or
\* 192.168.65.x
TcpSendStep ==
    /\ last'.op = "send"
    /\ last'.ready
    /\ last'.frame.ethertype = 2048
    /\ last'.frame.ip_proto = 6
    /\ last'.frame.ip_dst[1] = 192
    /\ last'.frame.ip_dst[2] = 168
    /\ last'.frame.ip_dst[3] \in {64, 65}

\* the segment is a SYN without ACK
SynStep ==
    /\ TcpSendStep
    /\ HasFlag(last'.frame.tcp_flags, TCP_SYN)
    /\ ~HasFlag(last'.frame.tcp_flags, TCP_ACK_FLAG)

\* the host can hand out a descriptor once the endpoint's own is closed
HostHasRoom == Cardinality(host.open \ {virtual_tcp.fd}) < MaxFds

\* C14: on a MAC-raw SEND of a TCP SYN (no ACK) to a 192.168.64/65 address
\* whose host connect succeeds, exactly one frame is injected, a SYN-ACK with
\* sequence number 12345 and acknowledgement number (guest sequence + 1) mod
\* 2^32; afterwards the own sequence is 12346, the expected peer sequence is
\* the guest sequence + 1, and established, fin_sent and fin_received are
\* false.
C14_SynAnsweredBySynAck ==
    [][(SynStep /\ HostHasRoom /\ ConnectSucceeds(last'.o)) =>
          /\ \E e \in last'.got :
                /\ last'.got = {e}
                /\ e.frame.tcp_flags = TCP_SYN + TCP_ACK_FLAG
                /\ e.frame.tcp_seq = <<0, 12345>>
                /\ e.frame.tcp_ack = U32Add(last'.frame.tcp_seq, 1)
          /\ virtual_tcp'.our_seq = <<0, 12346>>
          /\ virtual_tcp'.their_seq = U32Add(last'.frame.tcp_seq, 1)
          /\ virtual_tcp'.fd >= 0
          /\ ~virtual_tcp'.established
          /\ ~virtual_tcp'.fin_sent
          /\ ~virtual_tcp'.fin_received
      ]_vars

\* a SYN with sequence number 2^32 - 1 was answered: the expected peer
\* sequence wrapped to 0
C14_SynAckAfterWrap ==
    /\ last.op = "send"
    /\ last.ready
    /\ last.frame = SynWrap
    /\ \E e \in last.got : e.frame.tcp_flags = TCP_SYN + TCP_ACK_FLAG
    /\ virtual_tcp.fd >= 0
    /\ virtual_tcp.their_seq = <<0, 0>>
    /\ virtual_tcp.our_seq = <<0, 12346>>

\* C15: when a step of opening the host connection for a guest SYN fails
\* (socket(), connect() with an error other than EINPROGRESS, or a non-zero
\* SO_ERROR after the wait), exactly one frame is injected, an RST+ACK and no
\* SYN-ACK, and the endpoint ends with no open host socket.
C15_FailedConnectAnsweredByReset ==
    [][(SynStep /\ ~(HostHasRoom /\ ConnectSucceeds(last'.o))) =>
          /\ \E e \in last'.got :
                /\ last'.got = {e}
                /\ e.frame.tcp_flags = TCP_RST + TCP_ACK_FLAG
          /\ virtual_tcp'.fd = -1
          /\ host'.open = {}
      ]_vars

\* a SYN arrived on an open translation and the new host connection was
\* refused (SO_ERROR after the wait): the endpoint holds no socket
C15_RefusedOverOpenTranslation ==
    /\ last.op = "send"
    /\ last.ready
    /\ last.frame = SynFrame
    /\ last.o.vsoerr # 0
    /\ last.was.vtcp
    /\ \E e \in last.got : e.frame.tcp_flags = TCP_RST + TCP_ACK_FLAG
    /\ virtual_tcp.fd = -1

\* C16: at most one translated TCP connection exists at any time: the
\* endpoint's descriptor is the only host socket open on its behalf, and a
\* guest SYN that arrives while a translation is open closes that
\* translation's host socket before the new one is opened (the new socket
\* gets the descriptor just released).
C16_OneTranslationAtATime ==
    /\ [](host.open = IF virtual_tcp.fd >= 0 THEN {virtual_tcp.fd} ELSE {})
    /\ [][(SynStep /\ virtual_tcp.fd >= 0) =>
             /\ virtual_tcp'.fd \in {-1, virtual_tcp.fd}
             /\ host'.open \subseteq {virtual_tcp.fd}
         ]_vars

\* a SYN arrived on an open translation and a new one was opened
C16_SynOverOpenTranslation ==
    /\ last.op = "send"
    /\ last.ready
    /\ last.frame \in {SynFrame, SynWrap}
    /\ last.was.vtcp
    /\ virtual_tcp.fd >= 0
    /\ host.open = {virtual_tcp.fd}

\* the segment carries ACK and a payload, and the translation is open
DataStep ==
    /\ TcpSendStep
    /\ HasFlag(last'.frame.tcp_flags, TCP_ACK_FLAG)
    /\ ~HasFlag(last'.frame.tcp_flags, TCP_SYN)
    /\ last'.frame.data_len > 0
    /\ virtual_tcp.fd >= 0

RECURSIVE Payload(_)
\* the payload bytes of a set of injected frames
Payload(es) ==
    IF es = {} THEN 0
    ELSE LET e == CHOOSE x \in es : TRUE
         IN e.frame.data_len + Payload(es \ {e})

\* the injected frames that carry data of the host
Pushed(es) == {e \in es : HasFlag(e.frame.tcp_flags, TCP_PSH)}

\* C17 as stated: for a guest data segment (ACK with payload n > 0) on an
\* open translation the expected peer sequence advances by exactly n (mod
\* 2^32) and one ACK carrying the new value is injected; every block of k
\* bytes then received from the host is injected as PSH+ACK carrying the
\* endpoint's current own sequence, which then advances by k, so that the own
\* sequence grows by the payload bytes injected.
C17_DataAdvancesSequences ==
    [][DataStep =>
          /\ virtual_tcp'.their_seq = U32Add(virtual_tcp.their_seq, last'.frame.data_len)
          /\ \E e \in last'.got :
                /\ e.frame.tcp_flags = TCP_ACK_FLAG
                /\ e.frame.tcp_ack = virtual_tcp'.their_seq
          /\ \A e \in Pushed(last'.got) :
                e.frame.tcp_seq
                  = U32Add(virtual_tcp.our_seq,
                           Payload({d \in Pushed(last'.got) : d.at < e.at}))
          /\ virtual_tcp'.our_seq
               = U32Add(virtual_tcp.our_seq, Payload(Pushed(last'.got)))
      ]_vars

\* the segment carries FIN, and the translation is open
FinStep ==
    /\ TcpSendStep
    /\ HasFlag(last'.frame.tcp_flags, TCP_FIN)
    /\ ~HasFlag(last'.frame.tcp_flags, TCP_SYN)
    /\ last'.frame.data_len = 0
    /\ virtual_tcp.fd >= 0

ConnSocket == 1

\* destinations inside and outside 192.168.64.0/24 and 192.168.65.0/24
DestAddrs ==
    {<<192, 168, 64, 1>>, <<192, 168, 65, 200>>, <<192, 168, 66, 1>>, <<10, 0, 0, 7>>}

DestPorts == {8080}

\* the address lies in 192.168.64.0/24 or 192.168.65.0/24
InVirtualNet(ip) == ip[1] = 192 /\ ip[2] = 168 /\ ip[3] \in {64, 65}

\* the guest writes the destination registers and then CONNECT to the
\* command register
GuestConnect(w, ip, port, o) ==
    LET base == get_socket_base(ConnSocket)
        w1 == StoreBytes(w, base + Sn_DIPR, ip)
        w2 == StoreWord(w1, base + Sn_DPORT, port)
    IN GuestWrite(w2, base + Sn_CR, Sn_CR_CONNECT, o)

ConnWriteMode == RegWrite(get_socket_base(ConnSocket) + Sn_MR, Sn_MR_TCP, Quiet)

ConnCommand ==
    \E c \in {<<Sn_CR_OPEN, Quiet>>, <<Sn_CR_OPEN, SocketFails>>,
              <<Sn_CR_CLOSE, Quiet>>, <<Sn_CR_DISCON, Quiet>>} :
        RegWrite(get_socket_base(ConnSocket) + Sn_CR, c[1], c[2])

ConnConnect ==
    \E ip \in DestAddrs, port \in DestPorts, o \in {Quiet, ConnectPends, ConnectFails} :
        Becomes(GuestConnect(World, ip, port, o),
                Access("reg_write", get_socket_base(ConnSocket) + Sn_CR, Sn_CR_CONNECT, 0))

\* what poll() and getsockopt() answer while the connect is in progress
ConnectEnds == {[Quiet EXCEPT !.pollout = TRUE], [Quiet EXCEPT !.pollout = TRUE, !.soerr = 111]}

ConnReadStatus ==
    \E o \in ConnectEnds : RegRead(get_socket_base(ConnSocket) + Sn_SR, o)

ConnReset == ModeWrite(MR_RST)

NextConnect ==
    \/ ConnWriteMode
    \/ ConnCommand
    \/ ConnConnect
    \/ ConnReadStatus
    \/ ConnReset

SpecConnect == Init /\ [][NextConnect]_vars

\* the destination in Sn_DIPR and Sn_DPORT of the socket, as the guest wrote it
DestWritten(m) ==
    [ip |-> <<MemGet(m, get_socket_base(ConnSocket) + Sn_DIPR),
              MemGet(m, get_socket_base(ConnSocket) + Sn_DIPR + 1),
              MemGet(m, get_socket_base(ConnSocket) + Sn_DIPR + 2),
              MemGet(m, get_socket_base(ConnSocket) + Sn_DIPR + 3)>>,
     port |-> MemGet(m, get_socket_base(ConnSocket) + Sn_DPORT) * 256
                + MemGet(m, get_socket_base(ConnSocket) + Sn_DPORT + 1)]

\* CONNECT is written to the command register of a TCP socket in INIT
ConnectStep ==
    /\ last'.op = "reg_write"
    /\ last'.addr = get_socket_base(ConnSocket) + Sn_CR
    /\ last'.val = Sn_CR_CONNECT
    /\ u2.sockets[ConnSocket].fd >= 0
    /\ Mem(World, get_socket_base(ConnSocket) + Sn_SR) = Sn_SR_INIT

\* C19: for a CONNECT on a TCP socket in INIT whose Sn_DIPR lies in
\* 192.168.64.0/24 or 192.168.65.0/24 the host connect targets 127.0.0.1 at
\* the port in Sn_DPORT; in no reachable state is a host connect issued with a
\* destination address inside those two ranges.
C19_VirtualNetGoesToLocalhost ==
    /\ [][(ConnectStep /\ InVirtualNet(DestWritten(u2'.memory).ip)) =>
             host'.target = [ip |-> <<127, 0, 0, 1>>,
                             port |-> DestWritten(u2'.memory).port]
         ]_vars
    /\ [][ConnectStep => ~InVirtualNet(host'.target.ip)]_vars
    /\ [](~InVirtualNet(host.target.ip))

\* a CONNECT to 192.168.64.1:8080 went to 127.0.0.1:8080
C19_RedirectedConnect ==
    /\ last.op = "reg_write"
    /\ last.val = Sn_CR_CONNECT
    /\ DestWritten(u2.memory) = [ip |-> <<192, 168, 64, 1>>, port |-> 8080]
    /\ host.target = [ip |-> <<127, 0, 0, 1>>, port |-> 8080]
    /\ Mem(World, get_socket_base(ConnSocket) + Sn_SR) \in {Sn_SR_ESTABLISHED, Sn_SR_SYNSENT}

\* CLOSE or DISCON is written to the command register of socket s
CloseStep(s) ==
    /\ last'.op = "reg_write"
    /\ last'.addr = get_socket_base(s) + Sn_CR
    /\ last'.val \in {Sn_CR_CLOSE, Sn_CR_DISCON}

\* C20: a CLOSE or DISCON command issued in any socket state (TCP, UDP or
\* MAC-raw, SYN-SENT with a connect in progress included) leaves the socket
\* with status CLOSED, no host socket handle (the descriptor it held is
\* closed), connect-in-progress false, the MAC-raw flag false and RX head =
\* RX tail = 0.
C20_CloseFromAnyState ==
    [][\A s \in Sockets :
          CloseStep(s) =>
             /\ MemGet(u2'.memory, get_socket_base(s) + Sn_SR) = Sn_SR_CLOSED
             /\ u2'.sockets[s].fd = -1
             /\ u2.sockets[s].fd \notin host'.open
             /\ ~u2'.sockets[s].connecting
             /\ ~u2'.sockets[s].macraw_mode
             /\ u2'.sockets[s].rx_head = 0
             /\ u2'.sockets[s].rx_tail = 0
      ]_vars

\* socket 0 was closed while it held received data
C20_ClosedOverReceivedData ==
    /\ last.op = "reg_write"
    /\ last.addr = get_socket_base(0) + Sn_CR
    /\ last.val \in {Sn_CR_CLOSE, Sn_CR_DISCON}
    /\ last.was.open
    /\ last.was.rsr > 0
    /\ IsClosed(0)
    /\ host.open = {}
    /\ u2.sockets[0].rx_tail = 0

(***************************************************************************)
(* A TCP socket fed by the host: the guest opens socket 1 as TCP, listens  *)
(* or connects, lays bytes into the TX ring and sends them, reads the      *)
(* status and the received size while the host reports completions, data,  *)
(* end of stream and errors, and moves Sn_RX_RD before RECV                *)
(***************************************************************************)
\* bind() succeeds and listen() fails
ListenFails == [Quiet EXCEPT !.listen = FALSE]

\* the commands of a stream socket, each with what socket(), bind(), listen()
\* and connect() may answer to it
StreamCmdCases ==
    {<<Sn_CR_OPEN, Quiet>>, <<Sn_CR_OPEN, SocketFails>>,
     <<Sn_CR_LISTEN, Quiet>>, <<Sn_CR_LISTEN, BindFails>>, <<Sn_CR_LISTEN, ListenFails>>,
     <<Sn_CR_CONNECT, Quiet>>, <<Sn_CR_CONNECT, ConnectPends>>,
     <<Sn_CR_CONNECT, ConnectFails>>,
     <<Sn_CR_DISCON, Quiet>>, <<Sn_CR_CLOSE, Quiet>>}

\* what poll(), getsockopt(), recv() and accept() answer to a register read:
\* nothing, the connect completed or failed, the connect completed and the
\* peer has closed already, end of stream, a recv() error, a connection to
\* accept
StreamPolls ==
    {Quiet,
     [Quiet EXCEPT !.pollout = TRUE],
     [Quiet EXCEPT !.pollout = TRUE, !.soerr = 111],
     [Quiet EXCEPT !.pollout = TRUE, !.pollin = TRUE, !.got = 0],
     [Quiet EXCEPT !.pollin = TRUE, !.got = 0],
     [Quiet EXCEPT !.pollin = TRUE, !.got = -1],
     [Quiet EXCEPT !.pollin = TRUE, !.accept = TRUE]}

\* the bytes the guest lays into the TX ring, and the ring offsets it lays
\* them at: the start of the ring, and two bytes before its end
TxBytes == <<161, 162, 163>>

TxStarts == {0, SOCK_BUF_SIZE - 2}

\* the pending byte counts (TX_WR - TX_RD) the guest leaves
TxPending == {0, 3}

\* what send() returns: an error, a part, or everything
SendAnswers == {[Quiet EXCEPT !.sent = n] : n \in {-1, 2, SOCK_BUF_SIZE}}

\* the offsets from the RX base the guest writes into Sn_RX_RD before RECV
RecvMoves == {5, 2000}

\* the registers and buffer bytes outside the socket's page the guest reads
OutsidePage == {W5100_GAR, get_socket_base(0) + Sn_SR, get_tx_base(ConnSocket),
                get_rx_base(ConnSocket)}

\* an access with the answers the host gave during it and the status
\* register of the socket before it
StreamAccess(op, addr, val, o) ==
    [o |-> o, sr |-> MemGet(u2.memory, get_socket_base(ConnSocket) + Sn_SR)]
    @@ Access(op, addr, val, 0)

StreamWrite(addr, val, o) ==
    Becomes(GuestWrite(World, addr, val, o), StreamAccess("reg_write", addr, val, o))

StreamRead(addr, o) ==
    Becomes(GuestRead(World, addr, o), StreamAccess("reg_read", addr, -1, o))

\* the guest lays TxBytes into the TX ring from ring offset start on, sets
\* Sn_TX_RD there and Sn_TX_WR k bytes further, and writes SEND
GuestStreamSend(w, start, k, o) ==
    LET base == get_socket_base(ConnSocket)
        tx_base == get_tx_base(ConnSocket)
        w1 == Store(w, tx_base + (start % SOCK_BUF_SIZE), TxBytes[1])
        w2 == Store(w1, tx_base + ((start + 1) % SOCK_BUF_SIZE), TxBytes[2])
        w3 == Store(w2, tx_base + ((start + 2) % SOCK_BUF_SIZE), TxBytes[3])
        w4 == StoreWord(w3, base + Sn_TX_RD, tx_base + start)
        w5 == StoreWord(w4, base + Sn_TX_WR, Word16(tx_base + start + k))
    IN GuestWrite(w5, base + Sn_CR, Sn_CR_SEND, o)

\* the guest writes Sn_RX_RD and then RECV
GuestStreamRecv(w, d) ==
    LET base == get_socket_base(ConnSocket)
        w1 == StoreWord(w, base + Sn_RX_RD, get_rx_base(ConnSocket) + d)
    IN GuestWrite(w1, base + Sn_CR, Sn_CR_RECV, Quiet)

StreamWriteMode == StreamWrite(get_socket_base(ConnSocket) + Sn_MR, Sn_MR_TCP, Quiet)

StreamCommand ==
    \E c \in StreamCmdCases : StreamWrite(get_socket_base(ConnSocket) + Sn_CR, c[1], c[2])

StreamReadStatus ==
    \E o \in StreamPolls : StreamRead(get_socket_base(ConnSocket) + Sn_SR, o)

\* a read of another register of the socket's page
StreamReadSize ==
    \E o \in ConnectEnds : StreamRead(get_socket_base(ConnSocket) + Sn_RX_RSR, o)

\* a read outside the socket's page while the host has answers for it
StreamReadOutside ==
    \E a \in OutsidePage, o \in ConnectEnds : StreamRead(a, o)

\* a data write to the status register
StreamWriteStatus ==
    StreamWrite(get_socket_base(ConnSocket) + Sn_SR, Sn_SR_ESTABLISHED, Quiet)

StreamReset == ModeWrite(MR_RST)

NextStream ==
    \/ StreamWriteMode
    \/ StreamCommand
    \/ StreamReadStatus
    \/ StreamReadSize
    \/ StreamReadOutside
    \/ StreamWriteStatus
    \/ StreamReset

SpecStream == Init /\ [][NextStream]_vars

\* the status register of the stream socket, before and after the step
StatusNow == MemGet(u2.memory, get_socket_base(ConnSocket) + Sn_SR)

StatusNext == MemGet(u2'.memory, get_socket_base(ConnSocket) + Sn_SR)

\* command c is written to the command register of the stream socket
StreamCommandStep(c) ==
    /\ last'.op = "reg_write"
    /\ last'.addr = get_socket_base(ConnSocket) + Sn_CR
    /\ last'.val = c

\* a register of the stream socket's page is read
StreamPollStep ==
    /\ last'.op = "reg_read"
    /\ last'.addr >= get_socket_base(ConnSocket)
    /\ last'.addr < get_socket_base(ConnSocket) + 256

\* bind() or listen() fails under a LISTEN the socket is ready for
ListenFailsStep ==
    /\ StreamCommandStep(Sn_CR_LISTEN)
    /\ u2.sockets[ConnSocket].fd >= 0
    /\ StatusNow = Sn_SR_INIT
    /\ ~(last'.o.bind /\ last'.o.listen)

\* connect() fails with an error other than in-progress under a CONNECT the
\* socket is ready for
ConnectFailsStep ==
    /\ StreamCommandStep(Sn_CR_CONNECT)
    /\ u2.sockets[ConnSocket].fd >= 0
    /\ StatusNow = Sn_SR_INIT
    /\ last'.o.conn = "fail"

\* the poll of a register read finds the pending connect failed
PendingConnectFailsStep ==
    /\ StreamPollStep
    /\ u2.sockets[ConnSocket].fd >= 0
    /\ u2.sockets[ConnSocket].connecting
    /\ last'.o.pollout
    /\ last'.o.soerr # 0

\* recv() fails during the poll of a register read of an ESTABLISHED socket
RecvFailsStep ==
    /\ StreamPollStep
    /\ u2.sockets[ConnSocket].fd >= 0
    /\ ~u2.sockets[ConnSocket].connecting
    /\ StatusNow = Sn_SR_ESTABLISHED
    /\ last'.o.pollin
    /\ last'.o.got < 0

\* C22: when a host socket operation of a TCP socket fails with an error
\* other than in-progress or would-block (bind or listen failing on LISTEN,
\* recv failing during a poll, connect failing on CONNECT or while pending),
\* the socket's status becomes CLOSED.
C22_HostErrorClosesSocket ==
    [][(ListenFailsStep \/ ConnectFailsStep \/ PendingConnectFailsStep \/ RecvFailsStep)
          => StatusNext = Sn_SR_CLOSED]_vars

\* recv() returns zero during the poll of a register read of an ESTABLISHED
\* socket: the peer dropped the connection
PeerDroppedStep ==
    /\ StreamPollStep
    /\ u2.sockets[ConnSocket].fd >= 0
    /\ ~u2.sockets[ConnSocket].connecting
    /\ StatusNow = Sn_SR_ESTABLISHED
    /\ last'.o.pollin
    /\ last'.o.got = 0

\* C27: whenever a poll observes that the peer dropped the connection (host
\* read returns zero) or that a pending connect failed, the adapter's host
\* descriptor is closed and the adapter no longer holds a handle.
C27_DroppedConnectionReleased ==
    [][(PeerDroppedStep \/ PendingConnectFailsStep) =>
          /\ u2'.sockets[ConnSocket].fd = -1
          /\ u2.sockets[ConnSocket].fd \notin host'.open]_vars

\* the step is a reset through the mode soft switch
StreamResetStep == last'.op = "mode_write"

\* C28: for a socket whose mode is TCP, every change of the status register
\* between two consecutive guest accesses (command, register read, or data
\* write to a register) is one of: CLOSED->INIT on OPEN, INIT->LISTEN on
\* LISTEN, INIT->ESTABLISHED/SYN-SENT/CLOSED on CONNECT,
\* SYN-SENT->ESTABLISHED/CLOSED on poll, LISTEN->ESTABLISHED on accept,
\* ESTABLISHED->CLOSE-WAIT on host read of zero, any->CLOSED on CLOSE/DISCON
\* or reset.
C28_OnlyListedTransitions ==
    [][(/\ MemGet(u2.memory, get_socket_base(ConnSocket) + Sn_MR) = Sn_MR_TCP
        /\ StatusNext # StatusNow)
          => \/ /\ StreamCommandStep(Sn_CR_OPEN)
                /\ StatusNow = Sn_SR_CLOSED /\ StatusNext = Sn_SR_INIT
             \/ /\ StreamCommandStep(Sn_CR_LISTEN)
                /\ StatusNow = Sn_SR_INIT /\ StatusNext = Sn_SR_LISTEN
             \/ /\ StreamCommandStep(Sn_CR_CONNECT)
                /\ StatusNow = Sn_SR_INIT
                /\ StatusNext \in {Sn_SR_ESTABLISHED, Sn_SR_SYNSENT, Sn_SR_CLOSED}
             \/ /\ StreamPollStep
                /\ StatusNow = Sn_SR_SYNSENT
                /\ StatusNext \in {Sn_SR_ESTABLISHED, Sn_SR_CLOSED}
             \/ /\ StreamPollStep
                /\ last'.o.accept
                /\ StatusNow = Sn_SR_LISTEN /\ StatusNext = Sn_SR_ESTABLISHED
             \/ /\ StreamPollStep
                /\ last'.o.got = 0
                /\ StatusNow = Sn_SR_ESTABLISHED /\ StatusNext = Sn_SR_CLOSE_WAIT
             \/ /\ StreamCommandStep(Sn_CR_CLOSE) \/ StreamCommandStep(Sn_CR_DISCON)
                      \/ StreamResetStep
                /\ StatusNext = Sn_SR_CLOSED]_vars

\* C29: a CONNECT on a TCP socket in INIT sets status to ESTABLISHED when the
\* host connect succeeds immediately, to SYN-SENT (with connect-in-progress
\* set) when it reports in-progress, and to CLOSED on any other failure; a
\* CONNECT issued in any status other than INIT, or without a host socket,
\* leaves status and adapter state unchanged.
C29_ConnectOutcomes ==
    [][StreamCommandStep(Sn_CR_CONNECT) =>
          IF u2.sockets[ConnSocket].fd >= 0 /\ StatusNow = Sn_SR_INIT
          THEN /\ last'.o.conn = "ok" =>
                     /\ StatusNext = Sn_SR_ESTABLISHED
                     /\ u2'.sockets[ConnSocket] = u2.sockets[ConnSocket]
               /\ last'.o.conn = "inprogress" =>
                     /\ StatusNext = Sn_SR_SYNSENT
                     /\ u2'.sockets[ConnSocket].connecting
               /\ last'.o.conn = "fail" => StatusNext = Sn_SR_CLOSED
          ELSE /\ StatusNext = StatusNow
               /\ u2'.sockets = u2.sockets
               /\ host' = host
      ]_vars

\* a CONNECT the host reported in progress left the socket in SYN-SENT with
\* the connect pending
C29_ConnectPending ==
    /\ last.op = "reg_write"
    /\ last.addr = get_socket_base(ConnSocket) + Sn_CR
    /\ last.val = Sn_CR_CONNECT
    /\ last.o.conn = "inprogress"
    /\ StatusNow = Sn_SR_SYNSENT
    /\ u2.sockets[ConnSocket].connecting
    /\ u2.sockets[ConnSocket].fd \in host.open

\* the socket is in SYN-SENT with its connect pending on the host socket
SynSentPending ==
    /\ u2.sockets[ConnSocket].fd >= 0
    /\ u2.sockets[ConnSocket].connecting
    /\ StatusNow = Sn_SR_SYNSENT

\* the status register of the socket is read
StatusReadStep ==
    /\ last'.op = "reg_read"
    /\ last'.addr = get_socket_base(ConnSocket) + Sn_SR

\* a register or buffer byte outside the socket's page is read
OutsideReadStep ==
    /\ last'.op = "reg_read"
    /\ ~(last'.addr >= get_socket_base(ConnSocket)
          /\ last'.addr < get_socket_base(ConnSocket) + 256)

\* C30 as stated: every guest read of any register in the socket's page runs
\* a poll pass before the value is returned, so a socket in SYN-SENT whose
\* host connect has completed reads ESTABLISHED (SO_ERROR == 0) or CLOSED
\* (otherwise) on the first read of its status after completion, and remains
\* SYN-SENT for as long as the host reports no writability; reads of common
\* registers or buffers never change any socket status.
C30_CompletedConnectReadsEstablished ==
    [][/\ (StreamPollStep /\ SynSentPending /\ last'.o.pollout) =>
             StatusNext = IF last'.o.soerr = 0 THEN Sn_SR_ESTABLISHED ELSE Sn_SR_CLOSED
       /\ (StatusReadStep /\ SynSentPending) => result' = StatusNext
       /\ (StreamPollStep /\ SynSentPending /\ ~last'.o.pollout) =>
             StatusNext = Sn_SR_SYNSENT
       /\ OutsideReadStep =>
             \A s \in Sockets :
                 MemGet(u2'.memory, get_socket_base(s) + Sn_SR)
                   = MemGet(u2.memory, get_socket_base(s) + Sn_SR)
      ]_vars

\* C30: every guest read of any register in the socket's page runs a poll
\* pass before the value is returned, so a socket in SYN-SENT whose host
\* connect has completed reads, on the first read of its status after
\* completion, CLOSED when SO_ERROR is not 0, CLOSE-WAIT when SO_ERROR is 0
\* and the same poll pass reads end of stream from the host, and ESTABLISHED
\* otherwise; it remains SYN-SENT for as long as the host reports no
\* writability; reads of common registers or buffers never change any socket
\* status.
C30_CompletedConnectReadsOutcome ==
    [][/\ (StreamPollStep /\ SynSentPending /\ last'.o.pollout) =>
             StatusNext = IF last'.o.soerr # 0 THEN Sn_SR_CLOSED
                          ELSE IF last'.o.pollin /\ last'.o.got = 0
                          THEN Sn_SR_CLOSE_WAIT
                          ELSE Sn_SR_ESTABLISHED
       /\ (StatusReadStep /\ SynSentPending) => result' = StatusNext
       /\ (StreamPollStep /\ SynSentPending /\ ~last'.o.pollout) =>
             StatusNext = Sn_SR_SYNSENT
       /\ OutsideReadStep =>
             \A s \in Sockets :
                 MemGet(u2'.memory, get_socket_base(s) + Sn_SR)
                   = MemGet(u2.memory, get_socket_base(s) + Sn_SR)
      ]_vars

\* the first status read after the connect completed found the peer gone:
\* the socket went from SYN-SENT to CLOSE-WAIT
C30_ConnectedAndClosedAtOnce ==
    /\ last.op = "reg_read"
    /\ last.addr = get_socket_base(ConnSocket) + Sn_SR
    /\ last.sr = Sn_SR_SYNSENT
    /\ last.o.pollout /\ last.o.soerr = 0 /\ last.o.pollin /\ last.o.got = 0
    /\ result = Sn_SR_CLOSE_WAIT
    /\ ~u2.sockets[ConnSocket].connecting
    /\ u2.sockets[ConnSocket].fd \in host.open

(***************************************************************************)
(* The TX ring of a connected TCP socket: the guest lays bytes into the    *)
(* ring, sets the pointers and sends                                       *)
(***************************************************************************)
\* OPEN, CONNECT and CLOSE with a host that lets every call succeed
RingCommands == {Sn_CR_OPEN, Sn_CR_CONNECT, Sn_CR_CLOSE}

SendWriteMode == StreamWrite(get_socket_base(ConnSocket) + Sn_MR, Sn_MR_TCP, Quiet)

SendCommand ==
    \E c \in RingCommands : StreamWrite(get_socket_base(ConnSocket) + Sn_CR, c, Quiet)

\* a SEND, with the ring offset the pending bytes start at and their count
SendSend ==
    \E start \in TxStarts, k \in TxPending, o \in SendAnswers :
        Becomes(GuestStreamSend(World, start, k, o),
                [start |-> start, k |-> k]
                @@ StreamAccess("send", get_socket_base(ConnSocket) + Sn_CR, Sn_CR_SEND, o))

SendReset == ModeWrite(MR_RST)

NextSend ==
    \/ SendWriteMode
    \/ SendCommand
    \/ SendSend
    \/ SendReset

SpecSend == Init /\ [][NextSend]_vars

\* SEND is written to the command register of the socket while it is
\* ESTABLISHED and holds a host socket
StreamSendStep ==
    /\ last'.op = "send"
    /\ u2.sockets[ConnSocket].fd >= 0
    /\ Mem(World, get_socket_base(ConnSocket) + Sn_SR) = Sn_SR_ESTABLISHED

\* the bytes send() accepted of k pending ones (none when it failed)
Accepted(o, k) == IF o.sent > k THEN k ELSE IF o.sent > 0 THEN o.sent ELSE 0

\* C21: a SEND on an ESTABLISHED TCP socket with k = (TX_WR - TX_RD) mod 2048
\* pending bytes issues one host send of those k bytes in ring order (the
\* bytes the guest laid down, also when they wrap around the end of the
\* ring); if the host accepts s bytes, 0 < s <= k, the TX read pointer
\* advances by exactly s, and if it accepts none the TX read pointer and the
\* TX buffer are unchanged.
C21_SendDrainsTxRing ==
    [][StreamSendStep =>
          LET base == get_socket_base(ConnSocket)
              tx_base == get_tx_base(ConnSocket)
              k == last'.k
              tx_rd == tx_base + last'.start
              s == Accepted(last'.o, k)
              ring == [i \in 1..3 |->
                          MemGet(u2'.memory,
                                 tx_base + ((last'.start + i - 1) % SOCK_BUF_SIZE))]
          IN /\ k = And(MemGet(u2'.memory, base + Sn_TX_WR) * 256
                          + MemGet(u2'.memory, base + Sn_TX_WR + 1) - tx_rd,
                        SOCK_BUF_SIZE - 1)
             /\ ring = TxBytes
             /\ k > 0 =>
                   /\ host'.sent.fd = u2.sockets[ConnSocket].fd
                   /\ host'.sendbuf = [i \in 1..k |-> TxBytes[i]]
             /\ k = 0 => host' = host
             /\ MemGet(u2'.memory, base + Sn_TX_RD) * 256
                   + MemGet(u2'.memory, base + Sn_TX_RD + 1) = Word16(tx_rd + s)
      ]_vars

\* the host accepted two of three pending bytes that wrap around the end of
\* the TX ring
C21_PartOfWrappedBytesSent ==
    /\ last.op = "send"
    /\ last.start = SOCK_BUF_SIZE - 2
    /\ last.k = 3
    /\ last.o.sent = 2
    /\ host.sendbuf = TxBytes
    /\ host.sent.n = 2
    /\ MemWord(World, get_socket_base(ConnSocket) + Sn_TX_RD)
         = get_tx_base(ConnSocket) + SOCK_BUF_SIZE

(***************************************************************************)
(* The RX window of a connected TCP socket: the host's recv() stages data  *)
(* during the polls of register reads, the guest moves Sn_RX_RD and issues *)
(* RECV                                                                    *)
(***************************************************************************)
\* what recv() has for a poll: data, or nothing
RecvPolls == {Quiet, [Quiet EXCEPT !.pollin = TRUE, !.got = 2000]}

RecvWriteMode == StreamWrite(get_socket_base(ConnSocket) + Sn_MR, Sn_MR_TCP, Quiet)

RecvCommand ==
    \E c \in RingCommands : StreamWrite(get_socket_base(ConnSocket) + Sn_CR, c, Quiet)

RecvRecv ==
    \E d \in RecvMoves :
        Becomes(GuestStreamRecv(World, d),
                StreamAccess("recv", get_socket_base(ConnSocket) + Sn_CR, Sn_CR_RECV, Quiet))

RecvReadSize ==
    \E o \in RecvPolls : StreamRead(get_socket_base(ConnSocket) + Sn_RX_RSR, o)

RecvReset == ModeWrite(MR_RST)

NextRecv ==
    \/ RecvWriteMode
    \/ RecvCommand
    \/ RecvRecv
    \/ RecvReadSize
    \/ RecvReset

SpecRecv == Init /\ [][NextRecv]_vars

\* the 16-bit value the guest reads from Sn_RX_RSR of socket s while the host
\* has nothing to report
ReceivedSize(s) ==
    w5100_read(World, get_socket_base(s) + Sn_RX_RSR, Quiet).val * 256
    + w5100_read(World, get_socket_base(s) + Sn_RX_RSR + 1, Quiet).val

\* C25: in every reachable state and for every socket adapter, RX tail >=
\* head, and Sn_RX_RSR read through MMIO equals tail - head; this holds after
\* a RECV with any guest-written Sn_RX_RD and after host data has been staged
\* by any number of polls.
C25_ReceivedSizeIsTailMinusHead ==
    \A s \in Sockets :
        /\ u2.sockets[s].rx_tail >= u2.sockets[s].rx_head
        /\ ReceivedSize(s) = u2.sockets[s].rx_tail - u2.sockets[s].rx_head

\* C26: in every reachable state and for every socket, the value Sn_RX_RSR
\* reads is below 0x0800: the staged unconsumed bytes always fit the 2 KiB RX
\* window, whatever number of host bytes are received between guest RECVs.
C26_ReceivedSizeFitsWindow ==
    \A s \in Sockets : ReceivedSize(s) < SOCK_BUF_SIZE

(***************************************************************************)
(* The frames waiting in socket 0's RX buffer: the guest opens the socket  *)
(* in MAC-raw mode, resolves the gateway, runs one translated connection   *)
(* and consumes the waiting frames one whole frame at a time               *)
(***************************************************************************)
\* the host answers the guest's data with one full buffer
OneBuffer == [Quiet EXCEPT !.drain = <<SizeofRecvBuf>>]

\* the frames the guest sends, each with what the host may answer
FrameCases ==
    {<<ArpRequest, Quiet>>, <<SynFrame, Quiet>>, <<AckFrame, Quiet>>,
     <<DataFrame, OneBuffer>>}

\* the guest opens one connection, acknowledges the SYN-ACK once and sends
\* data on the established connection only; it asks for the gateway's MAC
\* address whenever it likes
FramesInTurn(f) ==
    /\ f = SynFrame => virtual_tcp.fd < 0
    /\ f = AckFrame => virtual_tcp.fd >= 0 /\ ~virtual_tcp.established
    /\ f = DataFrame => virtual_tcp.fd >= 0 /\ virtual_tcp.established

RECURSIVE Walk(_, _, _)
\* starting at offset pos of the staging buffer and skipping by the length
\* word found there, the walk lands exactly on offset tail
Walk(buf, pos, tail) ==
    IF pos = tail THEN TRUE
    ELSE IF \E e \in buf : e.at = pos /\ e.at + e.prefix <= tail
    THEN Walk(buf, pos + (CHOOSE e \in buf : e.at = pos).prefix, tail)
    ELSE FALSE

\* the length word of the frame at rx_head: the bytes one whole frame takes
HeadFrame(ss) == {e.prefix : e \in {x \in ss.rx_buf : x.at = ss.rx_head}}

FramesWriteMode == RegWrite(get_socket_base(0) + Sn_MR, Sn_MR_MACRAW, Quiet)

FramesOpen ==
    /\ Mem(World, get_socket_base(0) + Sn_SR) = Sn_SR_CLOSED
    /\ RegWrite(get_socket_base(0) + Sn_CR, Sn_CR_OPEN, Quiet)

FramesSend ==
    /\ FewPending
    /\ HostMaySend
    /\ \E c \in FrameCases :
          /\ FramesInTurn(c[1])
          /\ Becomes(GuestSend(World, c[1], c[2]),
                     Access("send", get_socket_base(0) + Sn_CR, Sn_CR_SEND, 0))

\* a read of the received size while the host has a full buffer of data
FramesPoll ==
    /\ FewPending
    /\ HostMaySend
    /\ Becomes(GuestRead(World, get_socket_base(0) + Sn_RX_RSR + 1,
                         [Quiet EXCEPT !.vpoll = TRUE, !.vgot = SizeofRecvBuf]),
               Access("reg_read", get_socket_base(0) + Sn_RX_RSR + 1, -1, 0))

\* the guest consumes the frame at the head: it advances Sn_RX_RD by the
\* frame's length word and issues RECV
FramesRecv ==
    /\ u2.sockets[0].rx_head < u2.sockets[0].rx_tail
    /\ \E n \in HeadFrame(u2.sockets[0]) :
          Becomes(GuestRecv(World, n), Access("recv", get_socket_base(0) + Sn_CR, n, 0))

FramesReset == ModeWrite(MR_RST)

NextFrames ==
    \/ FramesWriteMode
    \/ FramesOpen
    \/ FramesSend
    \/ FramesPoll
    \/ FramesRecv
    \/ FramesReset

SpecFrames == Init /\ [][NextFrames]_vars

\* C23: in every reachable MAC-raw state the unconsumed RX region is a
\* concatenation of whole frames, each preceded by a 2-byte length that
\* includes the length word itself: starting at head and repeatedly skipping
\* by the length word lands exactly on tail, provided the guest consumes
\* whole frames.
C23_WholeFramesBetweenHeadAndTail ==
    u2.sockets[0].macraw_mode =>
        Walk(u2.sockets[0].rx_buf, u2.sockets[0].rx_head, u2.sockets[0].rx_tail)

(***************************************************************************)
(* The checksums of the frames the card builds, byte by byte               *)
(***************************************************************************)
RECURSIVE WordSum(_, _)
\* the loop `for (i = 0; i < len; i += 2)` from index i on: the sum of the
\* big-endian 16-bit words of data, a trailing odd byte taken as a high byte
WordSum(data, i) ==
    IF i > Len(data) THEN 0
    ELSE Word16(data[i] * 256 + (IF i + 1 <= Len(data) THEN data[i + 1] ELSE 0))
         + WordSum(data, i + 2)

RECURSIVE FoldCarries(_)
\* while (sum >> 16) sum = (sum & 0xFFFF) + (sum >> 16);
FoldCarries(sum) ==
    IF sum \div 65536 # 0 THEN FoldCarries((sum % 65536) + (sum \div 65536)) ELSE sum

\* ip_checksum returning the folded sum itself instead of its complement
ip_checksum_NoComplement(data) == FoldCarries(WordSum(data, 1)) % 65536

\* ~sum & 0xFFFF of the folded sum
ip_checksum(data) == 65535 - FoldCarries(WordSum(data, 1))

\* the pseudo-header (source, destination, protocol 6, TCP length) and the
\* TCP header and data
tcp_checksum(ip, tcp) ==
    65535 - FoldCarries((ip[13] * 256 + ip[14]) + (ip[15] * 256 + ip[16])
                        + (ip[17] * 256 + ip[18]) + (ip[19] * 256 + ip[20])
                        + 6 + Len(tcp) + WordSum(tcp, 1))

\* a header or segment with two checksum bytes stored at offset off
WithChecksum(bytes, off, cksum) ==
    [bytes EXCEPT ![off + 1] = And(cksum \div 256, 255), ![off + 2] = And(cksum, 255)]

\* the IP header inject_tcp_response writes, checksum computed over the
\* header with the placeholder in place
TcpIpHeader(vt, data_len) ==
    LET ip_len == IPH_HEADER_LEN + TCP_HEADER_LEN + data_len
        hdr == <<69, 0, And(ip_len \div 256, 255), And(ip_len, 255), 0, 1, 0, 0, 64, 6, 0, 0>>
                 \o vt.local_ip \o vt.remote_ip
    IN WithChecksum(hdr, 10, ip_checksum(hdr))

\* the TCP header and data inject_tcp_response writes behind it
TcpSegment(vt, flags, data) ==
    LET seg == <<And(vt.local_port \div 256, 255), And(vt.local_port, 255),
                 And(vt.remote_port \div 256, 255), And(vt.remote_port, 255),
                 HI(vt.our_seq[1]), LO(vt.our_seq[1]), HI(vt.our_seq[2]), LO(vt.our_seq[2]),
                 HI(vt.their_seq[1]), LO(vt.their_seq[1]),
                 HI(vt.their_seq[2]), LO(vt.their_seq[2]),
                 80, flags, 32, 0, 0, 0, 0, 0>> \o data
    IN WithChecksum(seg, 16, tcp_checksum(TcpIpHeader(vt, Len(data)), seg))

\* the IP header inject_dhcp_response writes
DhcpIpHeader(is_ack) ==
    LET ip_len == IPH_HEADER_LEN + UDP_HEADER_LEN + DhcpReplyLen
        hdr == <<69, 0, 0, 0, 0, 0, 0, 0, 64, 17, 0, 0>>
                 \o VIRTUAL_SERVER_IP
                 \o (IF is_ack THEN VIRTUAL_CLIENT_IP ELSE BROADCAST_IP)
        sized == [hdr EXCEPT ![3] = And(ip_len \div 256, 255), ![4] = And(ip_len, 255)]
    IN WithChecksum(sized, 10, ip_checksum(sized))

(***************************************************************************)
(* Building frames: the endpoint of the translated connection holds some   *)
(* addresses and sequence numbers, and the card builds a segment with some *)
(* flags and payload, or a DHCP reply                                      *)
(***************************************************************************)
\* the longest payload built
MaxPayload == 3

CodecBytes == {0, 171, 255}

\* every payload of up to MaxPayload bytes, of even and of odd length
CodecPayloads == UNION {[1..n -> CodecBytes] : n \in 0..MaxPayload}

CodecFlags ==
    {TCP_SYN + TCP_ACK_FLAG, TCP_ACK_FLAG, TCP_ACK_FLAG + TCP_PSH,
     TCP_FIN + TCP_ACK_FLAG, TCP_RST + TCP_ACK_FLAG}

\* the endpoints the segments are built for
CodecEndpoints ==
    {[ZeroVirtualTcp EXCEPT !.local_ip = ip, !.remote_ip = VIRTUAL_CLIENT_IP,
                            !.local_port = 80, !.remote_port = 49152,
                            !.our_seq = ours, !.their_seq = theirs] :
        ip \in {VIRTUAL_GATEWAY, <<10, 0, 0, 7>>},
        ours \in {INITIAL_SEQ, <<65535, 65535>>},
        theirs \in {<<0, 1001>>, <<65535, 254>>}}

InitCodec ==
    /\ u2 = InitWorld.u2
    /\ host = InitWorld.host
    /\ virtual_tcp \in CodecEndpoints
    /\ result = [ip |-> <<>>, tcp |-> <<>>]
    /\ last = NoAccess

\* the headers of one frame of inject_tcp_response, built for an endpoint as
\* it was set up
BuildTcp ==
    \E flags \in CodecFlags, data \in CodecPayloads :
        /\ last.op = "init"
        /\ result' = [ip |-> TcpIpHeader(virtual_tcp, Len(data)),
                      tcp |-> TcpSegment(virtual_tcp, flags, data)]
        /\ last' = [NoAccess EXCEPT !.op = "tcp", !.val = flags]
        /\ UNCHANGED <<u2, virtual_tcp, host>>

\* the IP header of one frame of inject_dhcp_response
BuildDhcp ==
    \E is_ack \in BOOLEAN :
        /\ last.op = "init"
        /\ result' = [ip |-> DhcpIpHeader(is_ack), tcp |-> <<>>]
        /\ last' = [NoAccess EXCEPT !.op = "dhcp", !.val = IF is_ack THEN 1 ELSE 0]
        /\ UNCHANGED <<u2, virtual_tcp, host>>

NextCodec ==
    \/ BuildTcp
    \/ BuildDhcp

SpecCodec == InitCodec /\ [][NextCodec]_vars

\* the bytes with the two checksum bytes at offset off set to zero
Zeroed(bytes, off) == WithChecksum(bytes, off, 0)

\* the checksum stored at offset off
Stored(bytes, off) == bytes[off + 1] * 256 + bytes[off + 2]

\* the one's-complement sum of the 16-bit words is 0xFFFF: the sum of the
\* words is a positive multiple of 65535
SumsToOnes(total) == total > 0 /\ total % 65535 = 0

\* C24 as stated: for every IPv4 header the codec builds, recomputing its
\* checksum with the checksum field zeroed yields 0x0000, and for every TCP
\* segment the codec builds (any flags, payload of even or odd length),
\* recomputing its checksum over {pseudo-header, header, payload} yields
\* 0x0000.
C24_ZeroedHeaderSumsToZero ==
    last.op \in {"tcp", "dhcp"} =>
        /\ ip_checksum(Zeroed(result.ip, 10)) = 0
        /\ last.op = "tcp" => tcp_checksum(result.ip, result.tcp) = 0

\* C24: for every IPv4 header the codec builds, recomputing its checksum
\* over the 20 bytes as built (checksum field included) yields 0x0000, and
\* recomputing it with the checksum field zeroed yields the stored checksum;
\* for every TCP segment the codec builds (any flags, payload of even or odd
\* length), recomputing its checksum over {pseudo-header, header, payload}
\* yields 0x0000.  Both sums are 0xFFFF in one's-complement arithmetic.
C24_BuiltChecksumsVerify ==
    last.op \in {"tcp", "dhcp"} =>
        /\ ip_checksum(result.ip) = 0
        /\ ip_checksum(Zeroed(result.ip, 10)) = Stored(result.ip, 10)
        /\ SumsToOnes(WordSum(result.ip, 1))
        /\ last.op = "tcp" =>
              /\ tcp_checksum(result.ip, result.tcp) = 0
              /\ tcp_checksum(result.ip, Zeroed(result.tcp, 16)) = Stored(result.tcp, 16)
              /\ SumsToOnes(WordSum(result.ip, 13) + 6 + Len(result.tcp)
                            + WordSum(result.tcp, 1))

\* a FIN|ACK with a payload of three bytes of 0xFF was built for an endpoint
\* whose sequence number is 0xFFFFFFFF
C24_OddPayloadBuilt ==
    /\ last.op = "tcp"
    /\ last.val = TCP_FIN + TCP_ACK_FLAG
    /\ virtual_tcp.our_seq = <<65535, 65535>>
    /\ Len(result.tcp) = TCP_HEADER_LEN + 3
    /\ result.tcp[TCP_HEADER_LEN + 3] = 255
    /\ Stored(result.tcp, 16) # 0
    /\ Stored(result.ip, 10) # 0

(***************************************************************************)
(* MAC-raw OPEN and RECV specification: the guest gives sockets 0 and 2 a  *)
(* mode, opens them, asks for the gateway's MAC address on socket 0 and    *)
(* acknowledges received bytes by moving Sn_RX_RD before RECV              *)
(***************************************************************************)
RawSockets == {0, 2}

\* the modes the guest gives each socket: MAC-raw, with or without the MAC
\* filter bit (0x44), on socket 0; MAC-raw (which OPEN refuses there) or TCP
\* on socket 2
RawModes ==
    (0 :> {Sn_MR_MACRAW, 64 + Sn_MR_MACRAW}) @@ (2 :> {Sn_MR_MACRAW, Sn_MR_TCP})

\* what the guest adds to Sn_RX_RD before a RECV: nothing, part of the ARP
\* reply, the rest of it, and one whole window
RawMoves == {0, 20, 24, SOCK_BUF_SIZE}

RawWriteMode ==
    \E s \in RawSockets : \E m \in RawModes[s] :
        RegWrite(get_socket_base(s) + Sn_MR, m, Quiet)

RawOpen ==
    \E s \in RawSockets : RegWrite(get_socket_base(s) + Sn_CR, Sn_CR_OPEN, Quiet)

RawSend ==
    /\ u2.sockets[0].macraw_mode
    /\ Becomes(GuestSend(World, ArpRequest, Quiet),
               Access("send", get_socket_base(0) + Sn_CR, Sn_CR_SEND, 0))

\* the guest moves Sn_RX_RD within the two windows above the buffer base
RawRecv ==
    /\ u2.sockets[0].macraw_mode
    /\ \E d \in RawMoves :
          /\ MemWord(World, get_socket_base(0) + Sn_RX_RD) + d
                < get_rx_base(0) + 2 * SOCK_BUF_SIZE
          /\ Becomes(GuestRecv(World, d),
                     Access("recv", get_socket_base(0) + Sn_CR, d, 0))

RawReset == ModeWrite(MR_RST)

NextRaw ==
    \/ RawWriteMode
    \/ RawOpen
    \/ RawSend
    \/ RawRecv
    \/ RawReset

SpecRaw == Init /\ [][NextRaw]_vars

\* OPEN is written to the command register of socket s
OpenStep(s) ==
    /\ last'.op = "reg_write"
    /\ last'.addr = get_socket_base(s) + Sn_CR
    /\ last'.val = Sn_CR_OPEN

\* the low nibble of socket s's mode register is 4
MacRawModeSet(s) == And(MemGet(u2.memory, get_socket_base(s) + Sn_MR), 15) = Sn_MR_MACRAW

\* C31: status MAC-RAW is reached only on socket 0: OPEN with mode
\* low-nibble 4 on socket 0 sets status MAC-RAW, the MAC-raw flag, RX head =
\* tail = 0 and Sn_RX_RD = the socket's RX buffer base, and creates no host
\* socket; the same OPEN on sockets 1..3 leaves status, adapter state and
\* registers unchanged.
C31_MacRawOpenOnSocketZeroOnly ==
    [][/\ (OpenStep(0) /\ MacRawModeSet(0)) =>
             /\ MemGet(u2'.memory, get_socket_base(0) + Sn_SR) = Sn_SR_MACRAW
             /\ u2'.sockets[0].macraw_mode
             /\ u2'.sockets[0].rx_head = 0
             /\ u2'.sockets[0].rx_tail = 0
             /\ WORD(MemGet(u2'.memory, get_socket_base(0) + Sn_RX_RD + 1),
                     MemGet(u2'.memory, get_socket_base(0) + Sn_RX_RD)) = get_rx_base(0)
             /\ u2'.sockets[0].fd = -1
             /\ host'.open = host.open
       /\ \A s \in Sockets \ {0} :
             /\ (OpenStep(s) /\ MacRawModeSet(s)) =>
                   /\ u2'.sockets = u2.sockets
                   /\ u2'.memory = u2.memory
                   /\ host' = host
                   /\ virtual_tcp' = virtual_tcp
             /\ MemGet(u2'.memory, get_socket_base(s) + Sn_SR) # Sn_SR_MACRAW
             /\ ~u2'.sockets[s].macraw_mode
      ]_vars

\* socket 2, with status INIT and a host socket, was given OPEN with mode
\* MAC-raw after socket 0 had been opened with mode 0x44
C31_RefusedBesideOpenedSocketZero ==
    /\ last.op = "reg_write"
    /\ last.addr = get_socket_base(2) + Sn_CR
    /\ last.val = Sn_CR_OPEN
    /\ Mem(World, get_socket_base(2) + Sn_MR) = Sn_MR_MACRAW
    /\ Mem(World, get_socket_base(2) + Sn_SR) = Sn_SR_INIT
    /\ u2.sockets[2].fd \in host.open
    /\ Mem(World, get_socket_base(0) + Sn_MR) = 64 + Sn_MR_MACRAW
    /\ Mem(World, get_socket_base(0) + Sn_SR) = Sn_SR_MACRAW
    /\ u2.sockets[0].macraw_mode
    /\ u2.sockets[0].fd = -1

\* RECV is written to the command register of socket 0 after the guest has
\* added last'.val to Sn_RX_RD
RawRecvStep == last'.op = "recv" /\ u2.sockets[0].macraw_mode

\* the value the guest has written to Sn_RX_RD when RECV is issued
WrittenRxRd == Word16(MemWord(World, get_socket_base(0) + Sn_RX_RD) + last'.val)

\* the delta the guest claims: the offset of the written Sn_RX_RD in the RX
\* window minus head, modulo the window size
ClaimedDelta ==
    And(And(WrittenRxRd - get_rx_base(0), SOCK_BUF_SIZE - 1) - u2.sockets[0].rx_head,
        SOCK_BUF_SIZE - 1)

\* Sn_RX_RD of socket 0 after the step
RxRdNext ==
    WORD(MemGet(u2'.memory, get_socket_base(0) + Sn_RX_RD + 1),
         MemGet(u2'.memory, get_socket_base(0) + Sn_RX_RD))

\* head and tail are zero and Sn_RX_RD is the buffer base after the step
RxResetNext ==
    /\ u2'.sockets[0].rx_head = 0
    /\ u2'.sockets[0].rx_tail = 0
    /\ RxRdNext = get_rx_base(0)

\* head has advanced by the claimed delta, tail is unchanged and Sn_RX_RD
\* keeps the written value after the step
RxAdvancedNext ==
    /\ u2'.sockets[0].rx_head = u2.sockets[0].rx_head + ClaimedDelta
    /\ u2'.sockets[0].rx_tail = u2.sockets[0].rx_tail
    /\ RxRdNext = WrittenRxRd

\* C32 as stated: after every RECV command on the MAC-raw socket, head
\* advances by the delta the guest claims through Sn_RX_RD, and whenever
\* head >= tail would result, head and tail are both reset to zero and
\* Sn_RX_RD is snapped to the RX buffer base; otherwise Sn_RX_RD keeps the
\* guest-written value and tail is unchanged.
C32_RecvAdvancesOrResets ==
    [][RawRecvStep =>
          IF u2.sockets[0].rx_head + ClaimedDelta >= u2.sockets[0].rx_tail
          THEN RxResetNext
          ELSE RxAdvancedNext
      ]_vars

\* C32, amended: after every RECV command on the MAC-raw socket, head
\* advances by the delta the guest claims through Sn_RX_RD (the offset of
\* Sn_RX_RD in the RX window minus head, modulo 2048); when that delta is not
\* zero and head >= tail would result, head and tail are both reset to zero
\* and Sn_RX_RD is snapped to the RX buffer base; otherwise, a delta of zero
\* included, Sn_RX_RD keeps the guest-written value and tail is unchanged.
C32_RecvAdvancesOrResetsIfClaimed ==
    [][RawRecvStep =>
          IF ClaimedDelta > 0
             /\ u2.sockets[0].rx_head + ClaimedDelta >= u2.sockets[0].rx_tail
          THEN RxResetNext
          ELSE RxAdvancedNext
      ]_vars

\* the guest consumed the second part of an ARP reply: the buffer was reset
\* and Sn_RX_RD snapped back
C32_LastPartConsumed ==
    /\ last.op = "recv"
    /\ last.val = 24
    /\ last.was.rsr = 24
    /\ u2.sockets[0].macraw_mode
    /\ u2.sockets[0].rx_head = 0
    /\ u2.sockets[0].rx_tail = 0
    /\ MemWord(World, get_socket_base(0) + Sn_RX_RD) = get_rx_base(0)

\* C33: every SEND on the MAC-raw socket consumes the pending TX bytes: for
\* every pending length (TX_WR - TX_RD) mod 2048 in 0..2047 and whatever the
\* frame's content, after the SEND the TX read pointer equals the TX write
\* pointer and Sn_TX_FSR reads 2048.
C33_MacRawSendConsumesPending ==
    (/\ last.op = "reg_write"
     /\ last.addr = get_socket_base(0) + Sn_CR
     /\ last.val = Sn_CR_SEND
     /\ u2.sockets[0].macraw_mode)
        => /\ MemWord(World, get_socket_base(0) + Sn_TX_RD)
                = MemWord(World, get_socket_base(0) + Sn_TX_WR)
           /\ FreeSize(0) = SOCK_BUF_SIZE

\* a register of socket 0's page is read while socket 0 is in MAC-raw mode
\* and the translated connection is established with its host socket open;
\* every such read of the MAC-raw specification finds SizeofRecvBuf bytes
\* ready on the host socket
PollReadStep ==
    /\ last'.op = "reg_read"
    /\ last'.addr >= get_socket_base(0)
    /\ last'.addr < get_socket_base(0) + 256
    /\ u2.sockets[0].macraw_mode
    /\ virtual_tcp.established
    /\ virtual_tcp.fd >= 0

\* the bytes a TCP frame with n bytes of payload takes in the RX buffer
TcpFrameSize(n) == 2 + ETH_HEADER_LEN + IPH_HEADER_LEN + TCP_HEADER_LEN + n

\* the RX buffer of socket 0 holds more frames, or a longer tail, after the
\* step than before it
InjectionStep ==
    \/ u2'.sockets[0].rx_tail > u2.sockets[0].rx_tail
    \/ u2'.sockets[0].rx_buf \ u2.sockets[0].rx_buf # {}

\* C34: while a translated connection is established and its host socket is
\* open, every guest read of a register of the MAC-raw socket polls the host
\* TCP socket: the host data available is injected as one PSH+ACK frame at
\* the tail and the own sequence advances by the bytes injected; and no frame
\* is injected except by a guest access (a SEND or a register read).
C34_ReadInjectsAvailableData ==
    [][/\ PollReadStep =>
             /\ \E e \in u2'.sockets[0].rx_buf :
                   /\ e.at = u2.sockets[0].rx_tail
                   /\ e.prefix = TcpFrameSize(SizeofRecvBuf)
                   /\ e.frame.tcp_flags = TCP_ACK_FLAG + TCP_PSH
                   /\ e.frame.data_len = SizeofRecvBuf
                   /\ e.frame.tcp_seq = virtual_tcp.our_seq
             /\ u2'.sockets[0].rx_tail
                   = u2.sockets[0].rx_tail + TcpFrameSize(SizeofRecvBuf)
             /\ u2'.sockets[0].rx_head = u2.sockets[0].rx_head
             /\ virtual_tcp'.our_seq = U32Add(virtual_tcp.our_seq, SizeofRecvBuf)
       /\ InjectionStep => last'.op \in {"send", "reg_read"}
      ]_vars

\* C35: in every reachable state, if the virtual-TCP endpoint is marked
\* established then it holds an open host socket.
C35_EstablishedHoldsHostSocket ==
    virtual_tcp.established =>
        (virtual_tcp.fd >= 0 /\ virtual_tcp.fd \in host.open)

\* the socket adapters and the virtual-TCP endpoint that hold descriptor fd
Holders(fd) ==
    Cardinality({s \in Sockets : u2.sockets[s].fd = fd})
       + (IF virtual_tcp.fd = fd THEN 1 ELSE 0)

\* C36: no host descriptor is ever leaked: in every reachable state each
\* open host socket created by the card is referenced by exactly one socket
\* adapter or by the virtual-TCP endpoint, also after an OPEN issued on a
\* socket that already holds a host socket.
C36_NoDescriptorLeaked == \A fd \in host.open : Holders(fd) = 1

\* C37: in every reachable state, an adapter's connect-in-progress flag is
\* true only while that socket's status is SYN-SENT and it holds a host
\* socket.
C37_ConnectingOnlyInSynSent ==
    \A s \in Sockets :
        u2.sockets[s].connecting =>
            /\ Mem(World, get_socket_base(s) + Sn_SR) = Sn_SR_SYNSENT
            /\ u2.sockets[s].fd >= 0
            /\ u2.sockets[s].fd \in host.open

(***************************************************************************)
(* The end of a translated connection: the guest opens socket 0 in MAC-raw *)
(* mode, runs connections through it and reads the socket's status, while  *)
(* the host reports the end of its stream whenever it is asked             *)
(***************************************************************************)
\* the own sequence grows by at most MaxHostEnds after a SYN-ACK before the
\* host stops reporting the end of its stream
MaxHostEnds == 3

\* recv() returns 0 in the drain after a data segment, or in the poll of a
\* register read
DrainEnds == [Quiet EXCEPT !.drain = <<0>>]

PollEnds == [Quiet EXCEPT !.vpoll = TRUE, !.vgot = 0]

\* a data segment of another connection of the guest: from port 49153 to
\* port 8080
StrayData == [DataFrame EXCEPT !.sport = 49153, !.dport = 8080]

\* the segments the guest sends, each with what the host may answer
FinCases ==
    {<<SynFrame, Quiet>>, <<SynFrame, [Quiet EXCEPT !.vconn = "fail"]>>,
     <<AckFrame, Quiet>>, <<DataFrame, Quiet>>, <<DataFrame, DrainEnds>>,
     <<StrayData, Quiet>>, <<FinFrame, Quiet>>}

\* an access, with the frames it injected: those it leaves in an RX buffer
\* that was empty
FinAccess(op, addr, val, f, r) ==
    [frame |-> f, got |-> Arrived(r)] @@ Access(op, addr, val, 0)

HostMayEnd == virtual_tcp.our_seq[2] - INITIAL_SEQ[2] <= MaxHostEnds

FinWriteMode == RegWrite(get_socket_base(0) + Sn_MR, Sn_MR_MACRAW, Quiet)

FinOpen ==
    /\ Mem(World, get_socket_base(0) + Sn_SR) = Sn_SR_CLOSED
    /\ RegWrite(get_socket_base(0) + Sn_CR, Sn_CR_OPEN, Quiet)

\* the guest reads what waits in the RX buffer before it sends its next
\* frame, and closes a connection that is open
FinSend ==
    /\ Rsr(World) = 0
    /\ MacrawOpen(World)
    /\ \E c \in FinCases :
          /\ c[1] = FinFrame => virtual_tcp.fd >= 0
          /\ c[2].drain # <<>> => HostMayEnd
          /\ Becomes(GuestSend(World, c[1], c[2]),
                     FinAccess("send", get_socket_base(0) + Sn_CR, Sn_CR_SEND, c[1],
                               GuestSend(EmptyRx(World), c[1], c[2])))

\* a read of the status register while the host has closed the connection
FinPoll ==
    /\ Rsr(World) = 0
    /\ HostMayEnd
    /\ Becomes(GuestRead(World, get_socket_base(0) + Sn_SR, PollEnds),
               FinAccess("reg_read", get_socket_base(0) + Sn_SR, -1, NoFrame,
                         GuestRead(EmptyRx(World), get_socket_base(0) + Sn_SR, PollEnds)))

\* the guest consumes everything that waits in the RX buffer
FinRecv ==
    /\ Rsr(World) > 0
    /\ Becomes(GuestRecv(World, Rsr(World)),
               FinAccess("recv", get_socket_base(0) + Sn_CR, Rsr(World), NoFrame,
                         [w |-> EmptyRx(World)]))

FinReset == ModeWrite(MR_RST)

NextFin ==
    \/ FinWriteMode
    \/ FinOpen
    \/ FinSend
    \/ FinPoll
    \/ FinRecv
    \/ FinReset

SpecFin == Init /\ [][NextFin]_vars

\* the frames with the FIN flag among a set of injected frames
Fins(es) == {e \in es : HasFlag(e.frame.tcp_flags, TCP_FIN)}

\* the step injects frames: a SEND or a register read on socket 0
FinInjectStep == last'.op \in {"send", "reg_read"}

\* the step is a SYN that the host accepts: the next connection begins
AcceptedSynStep ==
    /\ last'.op = "send"
    /\ HasFlag(last'.frame.tcp_flags, TCP_SYN)
    /\ ~HasFlag(last'.frame.tcp_flags, TCP_ACK_FLAG)
    /\ virtual_tcp'.fd >= 0

\* C38: for each translated connection (from one accepted SYN to the next
\* SYN), at most one frame with the FIN flag is injected towards the guest
\* and the own sequence is incremented for FIN at most once: no step injects
\* two such frames, and once the FIN of a connection has been sent no later
\* step of the connection injects another or moves the own sequence.
C38_OneFinPerConnection ==
    [][FinInjectStep =>
          /\ Cardinality(Fins(last'.got)) <= 1
          /\ (virtual_tcp.fin_sent /\ ~AcceptedSynStep) =>
                /\ Fins(last'.got) = {}
                /\ virtual_tcp'.our_seq = virtual_tcp.our_seq
      ]_vars

\* a SEND, on the open MAC-raw socket, of a TCP segment to 192.168.65.1
SegmentStep == last'.op = "send" /\ last'.frame.ip_proto = 6

\* frame e is addressed back to the sender of segment f
AddressedBackTo(e, f) ==
    /\ e.eth_dst = f.eth_src
    /\ e.ip_dst = f.ip_src
    /\ e.ip_src = f.ip_dst
    /\ e.dport = f.sport
    /\ e.sport = f.dport

\* C39: every TCP frame injected in response to a guest segment is addressed
\* back to that segment's sender: Ethernet destination = the segment's source
\* MAC, IP destination = its source IP, IP source = its destination IP, TCP
\* destination port = its source port and TCP source port = its destination
\* port; this includes the RST+ACK injected when the host connect for a SYN
\* fails.
C39_ResponsesAddressedToSender ==
    [][SegmentStep =>
          \A e \in last'.got : AddressedBackTo(e.frame, last'.frame)
      ]_vars

\* the segment has no SYN, and no translation is open or its ports are not
\* those of the recorded connection
UnmatchedSegmentStep ==
    /\ SegmentStep
    /\ ~HasFlag(last'.frame.tcp_flags, TCP_SYN)
    /\ \/ virtual_tcp.fd < 0
       \/ last'.frame.sport # virtual_tcp.remote_port
       \/ last'.frame.dport # virtual_tcp.local_port

\* C40: a guest TCP segment without SYN is acted upon only when a
\* translation is open and the segment's source port and destination port
\* match the recorded connection: otherwise no payload is forwarded to a host
\* socket, no frame is injected, and the virtual-TCP sequence numbers and
\* flags are unchanged.
C40_UnmatchedSegmentsDropped ==
    [][UnmatchedSegmentStep =>
          /\ host' = host
          /\ last'.got = {}
          /\ u2'.sockets[0].rx_tail = u2.sockets[0].rx_tail
          /\ virtual_tcp' = virtual_tcp
      ]_vars

(***************************************************************************)
(* The address pointer under data accesses (soft-switch specification)     *)
(***************************************************************************)
\* the step is an access through the data switch
DataAccess == last'.op \in {"data_read", "data_write"}

\* the step is a data write of a value with bit 7 set to the mode register
\* at 0x0000, which w5100_write turns into w5100_reset
ResetByDataWrite ==
    /\ last'.op = "data_write"
    /\ u2.addr_ptr = W5100_MR
    /\ And(last'.val, MR_RST) # 0

\* C4 as stated: with bit 1 of the mode byte set every data access, to any
\* address, moves the address pointer to (pointer + 1) mod 0x10000, and with
\* bit 1 clear a data access leaves the pointer unchanged.
C4_EveryAccessIncrements ==
    [][DataAccess =>
         IF And(u2.mode, MR_AI) # 0
         THEN u2'.addr_ptr = (u2.addr_ptr + 1) % 65536
         ELSE u2'.addr_ptr = u2.addr_ptr]_vars

\* C4 amended: the same, except for a data write of a value with bit 7 set to
\* address 0x0000, which resets the card: the pointer and the mode byte are 0
\* after it, auto-increment or not.
C4_IncrementUnlessReset ==
    [][DataAccess =>
         IF ResetByDataWrite
         THEN u2'.addr_ptr = 0 /\ u2'.mode = 0
         ELSE IF And(u2.mode, MR_AI) # 0
         THEN u2'.addr_ptr = (u2.addr_ptr + 1) % 65536
         ELSE u2'.addr_ptr = u2.addr_ptr]_vars

\* a data access at the out-of-range address 0xFFFF with auto-increment on
\* has wrapped the pointer to 0
C4_Wrapped ==
    /\ last.op \in {"data_read", "data_write"}
    /\ last.addr = 65535
    /\ And(u2.mode, MR_AI) # 0
    /\ u2.addr_ptr = 0

====
